---- MODULE Spec2Model ----
(***************************************************************************)
(* Process table / scheduler (src/src/process.rs), signal subsystem        *)
(* (src/src/signals.rs), syscall dispatcher (src/src/syscalls.rs) and      *)
(* interrupt controller (src/src/interrupt.rs) of the pi5_os kernel, as a  *)
(* state machine over the kernel's global singletons and the registers the *)
(* interrupt path reads and writes.                                        *)
(***************************************************************************)
EXTENDS Integers, Sequences, FiniteSets, TLC

VARIABLES
    PROCESS_MANAGER,        \* process.rs:162  static mut PROCESS_MANAGER
    GLOBAL_SIGNAL_HANDLER,  \* signals.rs:401  static mut GLOBAL_SIGNAL_HANDLER
    last,                   \* the last operation called, its arguments and its return value
    run,                    \* history: pids returned by the schedule() calls made in a row
                            \* since a state in which every process was Ready
    GLOBAL_FD_TABLE,        \* syscalls.rs:124  static mut GLOBAL_FD_TABLE
    VFS,                    \* filesystem.rs:255 static mut VFS
    INTERRUPT_CONTROLLER,   \* interrupt.rs:324 static mut INTERRUPT_CONTROLLER
    hw,                     \* registers: GIC distributor / CPU interface, VBAR_EL1, DAIF.I
    mmio,                   \* register and UART accesses of the last handle_interrupt call
    init_pc,                \* position of the caller inside init_interrupts
    cpu,                    \* registers, stack and position of the exception path
    task,                   \* the kernel operation in progress and its position
    alone                   \* history: singletons and return value of the calls made so
                            \* far, had no interrupt been taken

irqvars == <<INTERRUPT_CONTROLLER, hw, mmio, init_pc, cpu>>
opvars == <<task, alone>>
vars == <<PROCESS_MANAGER, GLOBAL_SIGNAL_HANDLER, last, run, GLOBAL_FD_TABLE, VFS, irqvars,
          opvars>>

----------------------------------------------------------------------------
(* Program constants *)

MAX_PROCESSES == 64
DEFAULT_TIME_SLICE == 10
MAX_PENDING_SIGNALS == 32
DEFAULT_PRIORITY == 128
INIT_PID == 1

(* Bounds of the model *)

MaxTable == 2       \* create_process / fork are explored up to this table length
MaxTicks == 3       \* schedule() is explored while scheduler_tick is below this
MaxSigTable == 1    \* table length explored by the signal specification
MaxPending == 1     \* blocked sends are explored up to this queue length
MaxQueue == 3       \* queue length explored by the mixed-queue specification
MaxSysTicks == 1    \* schedule() calls explored by the syscall specification
MaxFds == 1         \* open() is explored while the descriptor table is shorter
MaxExitTable == 3   \* table length explored by the exit specification
MaxExitTicks == 2   \* schedule() calls explored by the exit specification
MaxFullTicks == 2   \* schedule() calls explored by the full-table specification
MaxPendQueue == 2   \* queue length explored by the queue-retention specification
MaxPendTicks == 1   \* schedule() calls explored by the queue-retention specification
MaxRunTable == 3    \* table length explored by the repeated-schedule specification
MaxRunTicks == 3    \* schedule() calls explored by the repeated-schedule specification
MaxSliceTable == 2  \* table length explored by the time-slice specification
MaxSliceTicks == 12 \* scheduler_tick bound there: one more than a full time slice after a switch
MaxPreTable == 2    \* table length explored by the specification with preemption
MaxPreTicks == 2    \* schedule() calls explored by the specification with preemption

EntryPoints == {4096}
ParentPids == {0, 1, 2}
PidInputs == {1, 2, 3}

----------------------------------------------------------------------------
(* Return values: Option<u32>, bool, Result<(), &'static str>, i64 *)

Some(v) == [tag |-> "Some", val |-> v, msg |-> ""]
None == [tag |-> "None", val |-> 0, msg |-> ""]
Bool(b) == [tag |-> IF b THEN "true" ELSE "false", val |-> 0, msg |-> ""]
Ok == [tag |-> "Ok", val |-> 0, msg |-> ""]
Err(m) == [tag |-> "Err", val |-> 0, msg |-> m]
I64(v) == [tag |-> "Int", val |-> v, msg |-> ""]
Unit == [tag |-> "Unit", val |-> 0, msg |-> ""]

\* a call that does not return (sys_exit ends in loop { wfe }, a panic ends in
\* the loop of the panic handler)
Diverges == [tag |-> "Diverges", val |-> 0, msg |-> ""]

Min(S) == CHOOSE x \in S : \A y \in S : x <= y

----------------------------------------------------------------------------
(* Integer casts *)

\* the low 32 bits of x (x as u32)
as_u32(x) == (x % 65536) + 65536 * ((x \div 65536) % 65536)

\* the low 32 bits of x read as a two's-complement number (x as i32)
as_i32(x) ==
    IF as_u32(x) \div 65536 < 32768
    THEN as_u32(x)
    ELSE (as_u32(x) - 65536 * 32768) - 65536 * 32768

\* a u64 read as a two's-complement number (x as i64)
as_i64(x) ==
    IF ((x \div 65536) \div 65536) \div 65536 < 32768
    THEN x
    ELSE (x - 65536 * 65536 * 65536 * 32768) - 65536 * 65536 * 65536 * 32768

----------------------------------------------------------------------------
(* process.rs *)

ProcessState == {"Ready", "Running", "Sleeping", "Terminated"}

\* ProcessManager::new
ProcessManager_new ==
    [processes |-> <<>>, current_pid |-> 0, next_pid |-> 1, scheduler_tick |-> 0]

\* iter().position(|p| p.pid == pid), 1-based; 0 when no entry has that pid
position(processes, pid) ==
    LET hits == {i \in 1..Len(processes) : processes[i].pid = pid}
    IN IF hits = {} THEN 0 ELSE Min(hits)

\* ProcessManager::get_process: the first entry with that pid
get_process(pm, pid) ==
    LET i == position(pm.processes, pid)
    IN IF i = 0 THEN None ELSE [tag |-> "Some", val |-> pm.processes[i], msg |-> ""]

\* ProcessManager::create_process
\* Variant of create_process that consumes a pid even when the table is full
create_process_full_bumps_pid(pm, entry_point, parent_pid) ==
    IF Len(pm.processes) = MAX_PROCESSES
    THEN [pm |-> [pm EXCEPT !.next_pid = @ + 1], ret |-> None]
    ELSE LET pid == pm.next_pid
             process == [pid |-> pid,
                         ppid |-> parent_pid,
                         state |-> "Ready",
                         stack_ptr |-> 4194304 + pid * 1048576,
                         entry_point |-> entry_point,
                         priority |-> DEFAULT_PRIORITY,
                         time_slice |-> DEFAULT_TIME_SLICE,
                         used_time |-> 0]
         IN [pm |-> [pm EXCEPT !.next_pid = pid + 1,
                               !.processes = Append(@, process)],
             ret |-> Some(pid)]

create_process(pm, entry_point, parent_pid) ==
    IF Len(pm.processes) = MAX_PROCESSES
    THEN [pm |-> pm, ret |-> None]
    ELSE LET pid == pm.next_pid
             process == [pid |-> pid,
                         ppid |-> parent_pid,
                         state |-> "Ready",
                         stack_ptr |-> 4194304 + pid * 1048576,
                         entry_point |-> entry_point,
                         priority |-> DEFAULT_PRIORITY,
                         time_slice |-> DEFAULT_TIME_SLICE,
                         used_time |-> 0]
         IN [pm |-> [pm EXCEPT !.next_pid = pid + 1,
                               !.processes = Append(@, process)],
             ret |-> Some(pid)]

\* ProcessManager::create_init_process
create_init_process(pm, entry_point) ==
    create_process([pm EXCEPT !.next_pid = INIT_PID], entry_point, 0)

\* ProcessManager::set_process_state
set_process_state(pm, pid, state) ==
    LET i == position(pm.processes, pid)
    IN IF i = 0
       THEN [pm |-> pm, ret |-> Bool(FALSE)]
       ELSE [pm |-> [pm EXCEPT !.processes[i].state = state], ret |-> Bool(TRUE)]

\* Variant of the charge that gives the processor up at the end of the slice but
\* keeps the used time
charge_current_keeps_count(pm) ==
    LET ci == position(pm.processes, pm.current_pid)
    IN IF ci = 0
       THEN pm.processes
       ELSE LET current == pm.processes[ci]
                used == current.used_time + 1
            IN IF used >= current.time_slice \/ current.state # "Running"
               THEN [pm.processes EXCEPT
                        ![ci].state = IF current.state = "Running" THEN "Ready" ELSE current.state,
                        ![ci].used_time = IF current.state = "Running" THEN used ELSE 0]
               ELSE [pm.processes EXCEPT ![ci].used_time = used]

\* ProcessManager::schedule, lines 96-109: charge the current process
charge_current(pm) ==
    LET ci == position(pm.processes, pm.current_pid)
    IN IF ci = 0
       THEN pm.processes
       ELSE LET current == pm.processes[ci]
                used == current.used_time + 1
            IN IF used >= current.time_slice \/ current.state # "Running"
               THEN [pm.processes EXCEPT
                        ![ci].state = IF current.state = "Running" THEN "Ready" ELSE current.state,
                        ![ci].used_time = 0]
               ELSE [pm.processes EXCEPT ![ci].used_time = used]

\* ProcessManager::schedule in a build without overflow checks: scheduler_tick is
\* a u32 and the addition of line 94 wraps; lines 111-125 pick the next Ready process
schedule(pm) ==
    LET tick == as_u32(pm.scheduler_tick + 1)
        processes == charge_current(pm)
        n == Len(processes)
        ci == position(processes, pm.current_pid)
        current_index == IF ci = 0 THEN 0 ELSE ci - 1   \* .unwrap_or(0)
        ready == {i \in 1..n : processes[((current_index + i) % n) + 1].state = "Ready"}
    IN IF ready = {}
       THEN [pm |-> [pm EXCEPT !.scheduler_tick = tick, !.processes = processes],
             ret |-> None]
       ELSE LET index == ((current_index + Min(ready)) % n) + 1
            IN [pm |-> [pm EXCEPT !.scheduler_tick = tick,
                                  !.current_pid = processes[index].pid,
                                  !.processes = [processes EXCEPT ![index].state = "Running"]],
                ret |-> Some(processes[index].pid)]

\* ProcessManager::schedule in a build with overflow checks: at u32::MAX the
\* addition of line 94 panics before anything is written, and the panic handler
\* does not return
schedule_overflow_checks(pm) ==
    IF as_u32(pm.scheduler_tick + 1) = 0
    THEN [pm |-> pm, ret |-> Diverges]
    ELSE schedule(pm)

\* Variant of terminate_process that omits the re-parenting loop (lines 148-152)
terminate_process_no_reparent(pm, pid) ==
    LET i == position(pm.processes, pid)
    IN IF i = 0
       THEN [pm |-> pm, ret |-> Bool(FALSE)]
       ELSE [pm |-> [pm EXCEPT !.processes[i].state = "Terminated"], ret |-> Bool(TRUE)]

\* ProcessManager::terminate_process
terminate_process(pm, pid) ==
    LET i == position(pm.processes, pid)
    IN IF i = 0
       THEN [pm |-> pm, ret |-> Bool(FALSE)]
       ELSE LET terminated == [pm.processes EXCEPT ![i].state = "Terminated"]
                reparented == [j \in 1..Len(terminated) |->
                                 IF terminated[j].ppid = pid
                                 THEN [terminated[j] EXCEPT !.ppid = INIT_PID]
                                 ELSE terminated[j]]
            IN [pm |-> [pm EXCEPT !.processes = reparented], ret |-> Bool(TRUE)]

----------------------------------------------------------------------------
(* syscalls.rs *)

\* Variant of sys_fork that parents the child to pid 0
sys_fork_orphan(pm) ==
    LET parent == get_process(pm, pm.current_pid)
    IN IF parent.tag = "Some"
       THEN LET c == create_process(pm, parent.val.entry_point, 0)
            IN [pm |-> c.pm, ret |-> IF c.ret.tag = "Some" THEN I64(c.ret.val) ELSE I64(-12)]
       ELSE [pm |-> pm, ret |-> I64(-1)]

\* sys_fork
sys_fork(pm) ==
    LET parent == get_process(pm, pm.current_pid)
    IN IF parent.tag = "Some"
       THEN LET c == create_process(pm, parent.val.entry_point, pm.current_pid)
            IN [pm |-> c.pm, ret |-> IF c.ret.tag = "Some" THEN I64(c.ret.val) ELSE I64(-12)]
       ELSE [pm |-> pm, ret |-> I64(-1)]

----------------------------------------------------------------------------
(* signals.rs *)

SIGINT == 2
SIGKILL == 9
SIGTERM == 15
SIGCHLD == 17
SIGCONT == 18
SIGSTOP == 19
SIGTSTP == 20
SIGTTIN == 21
SIGTTOU == 22
SIGURG == 23
SIGWINCH == 28

\* enum SignalAction
Default == [kind |-> "Default", addr |-> 0]
Ignore == [kind |-> "Ignore", addr |-> 0]
Terminate == [kind |-> "Terminate", addr |-> 0]
Stop == [kind |-> "Stop", addr |-> 0]
Continue == [kind |-> "Continue", addr |-> 0]
Core == [kind |-> "Core", addr |-> 0]
Custom(handler_addr) == [kind |-> "Custom", addr |-> handler_addr]

\* Signal::from_i32: Some(signal) for 1..=31, None otherwise
from_i32(value) == IF value \in 1..31 THEN Some(value) ELSE None

\* Variant of is_uncatchable that matches SIGSTOP alone
is_uncatchable_stop_only(signal) == signal = SIGSTOP

\* Signal::is_uncatchable
is_uncatchable(signal) == signal = SIGKILL \/ signal = SIGSTOP

\* Variant of default_action without the Stop group
default_action_no_stop(signal) ==
    IF signal \in {SIGCHLD, SIGURG, SIGWINCH} THEN Ignore
    ELSE IF signal = SIGCONT THEN Continue
    ELSE Terminate

\* Signal::default_action
default_action(signal) ==
    IF signal \in {SIGCHLD, SIGURG, SIGWINCH} THEN Ignore
    ELSE IF signal \in {SIGSTOP, SIGTSTP, SIGTTIN, SIGTTOU} THEN Stop
    ELSE IF signal = SIGCONT THEN Continue
    ELSE Terminate

\* 1u64 << (signal as i32 - 1)
signal_bit(signal) == 2 ^ (signal - 1)

\* mask & bit != 0, mask | bit, mask & !bit on the u64 bitmap (bits 0..30 are used)
bit_test(mask, bit) == (mask \div bit) % 2 = 1
bit_or(mask, bit) == IF bit_test(mask, bit) THEN mask ELSE mask + bit
bit_clear(mask, bit) == IF bit_test(mask, bit) THEN mask - bit ELSE mask

\* static GLOBAL_SIGNAL_HANDLER initialiser (signals.rs:401-405)
SignalHandler_static ==
    [signal_mask |-> 0,
     pending_signals |-> <<>>,
     signal_handlers |-> [i \in 0..31 |-> Default]]

\* SignalHandler::new
SignalHandler_new ==
    [signal_mask |-> 0,
     pending_signals |-> <<>>,
     signal_handlers |-> [i \in 0..31 |-> IF i + 1 \in 1..31 THEN default_action(i + 1)
                                                         ELSE Default]]

\* SignalHandler::terminate_process
sig_terminate_process(pm, target_pid) ==
    LET t == terminate_process(pm, target_pid)
    IN [pm |-> t.pm,
        ret |-> IF t.ret.tag = "true" THEN Ok ELSE Err("Failed to terminate process")]

\* SignalHandler::stop_process
stop_process(pm, target_pid) ==
    LET t == set_process_state(pm, target_pid, "Sleeping")
    IN [pm |-> t.pm,
        ret |-> IF t.ret.tag = "true" THEN Ok ELSE Err("Failed to stop process")]

\* SignalHandler::continue_process
continue_process(pm, target_pid) ==
    LET t == set_process_state(pm, target_pid, "Ready")
    IN [pm |-> t.pm,
        ret |-> IF t.ret.tag = "true" THEN Ok ELSE Err("Failed to continue process")]

\* SignalHandler::core_dump_process: prints the record, then terminates
core_dump_process(pm, target_pid) == sig_terminate_process(pm, target_pid)

\* Variant of call_custom_handler that falls back to terminating the target
call_custom_handler_terminates(pm, target_pid, signal, handler_addr) ==
    sig_terminate_process(pm, target_pid)

\* SignalHandler::call_custom_handler: prints, transfers no control
call_custom_handler(pm, target_pid, signal, handler_addr) == [pm |-> pm, ret |-> Ok]

\* SignalHandler::default_signal_action
default_signal_action(pm, target_pid, signal) ==
    LET a == default_action(signal).kind
    IN IF a = "Terminate" THEN sig_terminate_process(pm, target_pid)
       ELSE IF a = "Stop" THEN stop_process(pm, target_pid)
       ELSE IF a = "Continue" THEN continue_process(pm, target_pid)
       ELSE IF a = "Ignore" THEN [pm |-> pm, ret |-> Ok]
       ELSE sig_terminate_process(pm, target_pid)

\* SignalHandler::deliver_signal
deliver_signal(sh, pm, target_pid, signal, sender_pid) ==
    LET action == sh.signal_handlers[signal - 1]
    IN IF action.kind = "Default" THEN default_signal_action(pm, target_pid, signal)
       ELSE IF action.kind = "Ignore" THEN [pm |-> pm, ret |-> Ok]
       ELSE IF action.kind = "Terminate" THEN sig_terminate_process(pm, target_pid)
       ELSE IF action.kind = "Stop" THEN stop_process(pm, target_pid)
       ELSE IF action.kind = "Continue" THEN continue_process(pm, target_pid)
       ELSE IF action.kind = "Core" THEN core_dump_process(pm, target_pid)
       ELSE call_custom_handler(pm, target_pid, signal, action.addr)

\* one call deliver_signal(target_pid, signal, sender_pid), as an operation records it
DeliverCall(target_pid, signal, sender_pid) ==
    [target_pid |-> target_pid, signal |-> signal, sender_pid |-> sender_pid]

\* Variant of SignalHandler::send_signal whose push ignores the queue's capacity
sh_send_signal_unbounded(sh, pm, target_pid, signal, sender_pid) ==
    IF bit_test(sh.signal_mask, signal_bit(signal)) /\ ~is_uncatchable(signal)
    THEN [sh |-> [sh EXCEPT !.pending_signals =
                     Append(@, [signal |-> signal, sender_pid |-> sender_pid])],
          pm |-> pm, ret |-> Ok, delivered |-> <<>>]
    ELSE LET d == deliver_signal(sh, pm, target_pid, signal, sender_pid)
         IN [sh |-> sh, pm |-> d.pm, ret |-> d.ret,
             delivered |-> <<DeliverCall(target_pid, signal, sender_pid)>>]

\* Variant of send_signal that queues a blocked signal at the head of the queue
sh_send_signal_front(sh, pm, target_pid, signal, sender_pid) ==
    IF bit_test(sh.signal_mask, signal_bit(signal)) /\ ~is_uncatchable(signal)
    THEN IF Len(sh.pending_signals) # MAX_PENDING_SIGNALS
         THEN [sh |-> [sh EXCEPT !.pending_signals =
                          <<[signal |-> signal, sender_pid |-> sender_pid]>> \o @],
               pm |-> pm, ret |-> Ok, delivered |-> <<>>]
         ELSE [sh |-> sh, pm |-> pm, ret |-> Err("Too many pending signals"),
               delivered |-> <<>>]
    ELSE LET d == deliver_signal(sh, pm, target_pid, signal, sender_pid)
         IN [sh |-> sh, pm |-> d.pm, ret |-> d.ret,
             delivered |-> <<DeliverCall(target_pid, signal, sender_pid)>>]

\* SignalHandler::send_signal
sh_send_signal(sh, pm, target_pid, signal, sender_pid) ==
    IF bit_test(sh.signal_mask, signal_bit(signal)) /\ ~is_uncatchable(signal)
    THEN IF Len(sh.pending_signals) # MAX_PENDING_SIGNALS
         THEN [sh |-> [sh EXCEPT !.pending_signals =
                          Append(@, [signal |-> signal, sender_pid |-> sender_pid])],
               pm |-> pm, ret |-> Ok, delivered |-> <<>>]
         ELSE [sh |-> sh, pm |-> pm, ret |-> Err("Too many pending signals"),
               delivered |-> <<>>]
    ELSE LET d == deliver_signal(sh, pm, target_pid, signal, sender_pid)
         IN [sh |-> sh, pm |-> d.pm, ret |-> d.ret,
             delivered |-> <<DeliverCall(target_pid, signal, sender_pid)>>]

\* Variant of set_signal_handler without the is_uncatchable rejection
sh_set_signal_handler_unchecked(sh, signal, action) ==
    [sh |-> [sh EXCEPT !.signal_handlers[signal - 1] = action], ret |-> Ok]

\* Variant of set_signal_handler that indexes the table by signal, not signal - 1
sh_set_signal_handler_off_by_one(sh, signal, action) ==
    IF is_uncatchable(signal)
    THEN [sh |-> sh, ret |-> Err("Cannot catch SIGKILL or SIGSTOP")]
    ELSE [sh |-> [sh EXCEPT !.signal_handlers[signal] = action], ret |-> Ok]

\* SignalHandler::set_signal_handler
sh_set_signal_handler(sh, signal, action) ==
    IF is_uncatchable(signal)
    THEN [sh |-> sh, ret |-> Err("Cannot catch SIGKILL or SIGSTOP")]
    ELSE [sh |-> [sh EXCEPT !.signal_handlers[signal - 1] = action], ret |-> Ok]

\* Variant of block_signal that drops the queued entries of the signal it blocks
sh_block_signal_flushes(sh, signal) ==
    IF ~is_uncatchable(signal)
    THEN [sh EXCEPT !.signal_mask = bit_or(@, signal_bit(signal)),
                    !.pending_signals = SelectSeq(@, LAMBDA e : e.signal # signal)]
    ELSE sh

\* SignalHandler::block_signal
sh_block_signal(sh, signal) ==
    IF ~is_uncatchable(signal)
    THEN [sh EXCEPT !.signal_mask = bit_or(@, signal_bit(signal))]
    ELSE sh

\* Variant of Vec::remove that fills the hole with the last element (swap_remove)
vec_swap_remove(v, i) ==
    IF i + 1 = Len(v)
    THEN SubSeq(v, 1, i)
    ELSE SubSeq(v, 1, i) \o <<v[Len(v)]>> \o SubSeq(v, i + 2, Len(v) - 1)

\* heapless Vec::remove(i), i 0-based
vec_remove(v, i) == SubSeq(v, 1, i) \o SubSeq(v, i + 2, Len(v))

\* SignalHandler::check_pending_signals: the while loop from index i (0-based);
\* delivered lists its deliver_signal calls in the order they are made
RECURSIVE check_pending_signals_from(_, _, _)
check_pending_signals_from(sh, pm, i) ==
    IF ~(i < Len(sh.pending_signals))
    THEN [sh |-> sh, pm |-> pm, delivered |-> <<>>]
    ELSE LET pending == sh.pending_signals[i + 1]
         IN IF ~bit_test(sh.signal_mask, signal_bit(pending.signal))
            THEN LET d == deliver_signal(sh, pm, 0, pending.signal, pending.sender_pid)
                     rest == check_pending_signals_from(
                                 [sh EXCEPT !.pending_signals = vec_remove(@, i)], d.pm, i)
                 IN \* let _ = ...: the delivery is made, its Ok or Err is dropped
                    CASE d.ret.tag \in {"Ok", "Err"} ->
                        [rest EXCEPT !.delivered =
                            <<DeliverCall(0, pending.signal, pending.sender_pid)>> \o @]
            ELSE check_pending_signals_from(sh, pm, i + 1)

\* SignalHandler::check_pending_signals
check_pending_signals(sh, pm) == check_pending_signals_from(sh, pm, 0)

\* Variant of SignalHandler::unblock_signal that clears the bit and skips the queue
sh_unblock_signal_mask_only(sh, pm, signal) ==
    [sh |-> [sh EXCEPT !.signal_mask = bit_clear(@, signal_bit(signal))],
     pm |-> pm, delivered |-> <<>>]

\* SignalHandler::unblock_signal
sh_unblock_signal(sh, pm, signal) ==
    check_pending_signals([sh EXCEPT !.signal_mask = bit_clear(@, signal_bit(signal))], pm)

\* SignalHandler::handle_keyboard_interrupt: SIGINT from sender 0 to the current
\* pid; the result of the send is dropped
sh_handle_keyboard_interrupt(sh, pm) ==
    LET r == sh_send_signal(sh, pm, pm.current_pid, SIGINT, 0)
    IN [sh |-> r.sh, pm |-> r.pm, ret |-> Unit, delivered |-> r.delivered]

\* SignalHandler::pending_signals_count
pending_signals_count(sh) == Len(sh.pending_signals)

\* pub fn send_signal
send_signal(sh, pm, target_pid, signal_num, sender_pid) ==
    IF from_i32(signal_num).tag = "Some"
    THEN sh_send_signal(sh, pm, target_pid, from_i32(signal_num).val, sender_pid)
    ELSE [sh |-> sh, pm |-> pm, ret |-> Err("Invalid signal number"), delivered |-> <<>>]

\* pub fn set_signal_handler
set_signal_handler(sh, signal_num, action) ==
    IF from_i32(signal_num).tag = "Some"
    THEN sh_set_signal_handler(sh, from_i32(signal_num).val, action)
    ELSE [sh |-> sh, ret |-> Err("Invalid signal number")]

\* pub fn block_signal
block_signal(sh, signal_num) ==
    IF from_i32(signal_num).tag = "Some"
    THEN [sh |-> sh_block_signal(sh, from_i32(signal_num).val), ret |-> Ok]
    ELSE [sh |-> sh, ret |-> Err("Invalid signal number")]

\* pub fn unblock_signal
\* Variant of the public unblock_signal that reports success for every number
unblock_signal_lenient(sh, pm, signal_num) ==
    IF from_i32(signal_num).tag = "Some"
    THEN LET u == sh_unblock_signal(sh, pm, from_i32(signal_num).val)
         IN [sh |-> u.sh, pm |-> u.pm, ret |-> Ok, delivered |-> u.delivered]
    ELSE [sh |-> sh, pm |-> pm, ret |-> Ok, delivered |-> <<>>]

unblock_signal(sh, pm, signal_num) ==
    IF from_i32(signal_num).tag = "Some"
    THEN LET u == sh_unblock_signal(sh, pm, from_i32(signal_num).val)
         IN [sh |-> u.sh, pm |-> u.pm, ret |-> Ok, delivered |-> u.delivered]
    ELSE [sh |-> sh, pm |-> pm, ret |-> Err("Invalid signal number"), delivered |-> <<>>]

\* pub fn handle_keyboard_interrupt
handle_keyboard_interrupt(sh, pm) == sh_handle_keyboard_interrupt(sh, pm)

----------------------------------------------------------------------------
(* filesystem.rs, timer.rs *)

MAX_FILES == 32
MAX_FILENAME == 64
MAX_CONTENT == 1024

\* heapless String<cap>::push_str: appends all of t or, when it does not fit,
\* nothing (the callers drop the error)
push_str(s, t, cap) == IF Len(s) + Len(t) <= cap THEN s \o t ELSE s

\* Unix permissions by file type: 0o755, 0o666, 0o444, 0o644
permissions_of(file_type) ==
    IF file_type = "Directory" THEN 493
    ELSE IF file_type = "Device" THEN 438
    ELSE IF file_type = "Proc" THEN 292
    ELSE 420

\* VirtualFile::new
VirtualFile_new(name, file_type, content) ==
    [name |-> push_str("", name, MAX_FILENAME),
     file_type |-> file_type,
     content |-> push_str("", content, MAX_CONTENT),
     size |-> Len(content),
     permissions |-> permissions_of(file_type)]

\* VirtualFileSystem::add_file
add_file(vfs, name, file_type, content) ==
    IF Len(vfs.files) # MAX_FILES
    THEN [vfs EXCEPT !.files = Append(@, VirtualFile_new(name, file_type, content))]
    ELSE vfs

\* the add_file calls of init_default_files, in their order
DefaultFiles ==
    << <<"/", "Directory", "">>,
       <<"/proc", "Directory", "">>,
       <<"/proc/version", "Proc", "Minimal Pi5 OS version 0.1.0 (root@pi5) (aarch64) #1">>,
       <<"/proc/cpuinfo", "Proc",
         "processor\t: 0\nBogoMIPS\t: 108.00\nFeatures\t: fp asimd evtstrm crc32 cpuid\nCPU implementer\t: 0x41\nCPU architecture: 8">>,
       <<"/proc/meminfo", "Proc",
         "MemTotal:     8388608 kB\nMemFree:      7340032 kB\nMemAvailable: 7340032 kB">>,
       <<"/proc/uptime", "Proc", "">>,
       <<"/proc/loadavg", "Proc", "0.00 0.00 0.00 1/1 1">>,
       <<"/dev", "Directory", "">>,
       <<"/dev/null", "Device", "">>,
       <<"/dev/zero", "Device", "">>,
       <<"/dev/uart0", "Device", "">>,
       <<"/dev/mem", "Device", "">>,
       <<"/sys", "Directory", "">>,
       <<"/sys/class", "Directory", "">>,
       <<"/sys/class/gpio", "Directory", "">>,
       <<"/tmp", "Directory", "">>,
       <<"/etc", "Directory", "">>,
       <<"/etc/hostname", "RegularFile", "pi5-minimal">>,
       <<"/etc/passwd", "RegularFile", "root:x:0:0:root:/root:/bin/sh">> >>

\* VirtualFileSystem::init_default_files from its k-th add_file call on
RECURSIVE init_default_files(_, _)
init_default_files(vfs, k) ==
    IF k > Len(DefaultFiles)
    THEN vfs
    ELSE init_default_files(
             add_file(vfs, DefaultFiles[k][1], DefaultFiles[k][2], DefaultFiles[k][3]), k + 1)

\* VirtualFileSystem::new
VirtualFileSystem_new == init_default_files([files |-> <<>>], 1)

\* the decimal digits
Digits == <<"0", "1", "2", "3", "4", "5", "6", "7", "8", "9">>

\* VirtualFileSystem::format_number: the decimal digits of num
RECURSIVE format_number(_)
format_number(num) ==
    IF num < 10 THEN Digits[num + 1]
    ELSE format_number(num \div 10) \o Digits[(num % 10) + 1]

\* Timer::get_uptime_seconds for the microsecond count time_us that get_time_us()
\* reads from the timer registers: (time_us / 1_000_000) as u32
get_uptime_seconds(time_us) == as_u32(time_us \div 1000000)

\* index of the first file named path, 0 when there is none
file_index(vfs, path) ==
    LET hits == {i \in 1..Len(vfs.files) : vfs.files[i].name = path}
    IN IF hits = {} THEN 0 ELSE Min(hits)

\* VirtualFileSystem::read_file; time_us is the count the timer holds at the call
vfs_read_file(vfs, path, time_us) ==
    IF path = "/proc/uptime"
    THEN LET uptime == get_uptime_seconds(time_us)
         IN Some(format_number(uptime) \o ".00 " \o format_number(uptime) \o ".00")
    ELSE IF file_index(vfs, path) # 0
         THEN Some(vfs.files[file_index(vfs, path)].content)
         ELSE None

\* VirtualFileSystem::file_exists
vfs_file_exists(vfs, path) == file_index(vfs, path) # 0

\* VirtualFileSystem::create_file
vfs_create_file(vfs, path, content) ==
    IF vfs_file_exists(vfs, path)
    THEN [vfs |-> vfs, ret |-> Bool(FALSE)]
    ELSE IF Len(vfs.files) # MAX_FILES
         THEN [vfs |-> [vfs EXCEPT !.files =
                           Append(@, VirtualFile_new(path, "RegularFile", content))],
               ret |-> Bool(TRUE)]
         ELSE [vfs |-> vfs, ret |-> Bool(FALSE)]

\* VirtualFileSystem::write_file: the first file of that name that is not a Proc file
vfs_write_file(vfs, path, content) ==
    LET hits == {i \in 1..Len(vfs.files) :
                    vfs.files[i].name = path /\ vfs.files[i].file_type # "Proc"}
    IN IF hits = {}
       THEN [vfs |-> vfs, ret |-> Bool(FALSE)]
       ELSE [vfs |-> [vfs EXCEPT !.files[Min(hits)].content = push_str("", content, MAX_CONTENT),
                                 !.files[Min(hits)].size = Len(content)],
             ret |-> Bool(TRUE)]

\* VirtualFileSystem::delete_file: removes the first regular file of that name,
\* the files behind it move up one place
vfs_delete_file(vfs, path) ==
    LET hits == {i \in 1..Len(vfs.files) :
                    vfs.files[i].name = path /\ vfs.files[i].file_type = "RegularFile"}
    IN IF hits = {}
       THEN [vfs |-> vfs, ret |-> Bool(FALSE)]
       ELSE [vfs |-> [vfs EXCEPT !.files = SubSeq(@, 1, Min(hits) - 1)
                                           \o SubSeq(@, Min(hits) + 1, Len(@))],
             ret |-> Bool(TRUE)]

\* pub fn init_filesystem
init_filesystem == [fs |-> Some(VirtualFileSystem_new), ret |-> Ok]

\* pub fn read_file; fs is the static VFS: Option<VirtualFileSystem>
read_file(fs, path, time_us) ==
    IF fs.tag = "Some" THEN vfs_read_file(fs.val, path, time_us) ELSE None

\* pub fn file_exists
file_exists(fs, path) ==
    IF fs.tag = "Some" THEN Bool(vfs_file_exists(fs.val, path)) ELSE Bool(FALSE)

\* pub fn create_file
create_file(fs, path, content) ==
    IF fs.tag = "Some"
    THEN [fs |-> Some(vfs_create_file(fs.val, path, content).vfs),
          ret |-> vfs_create_file(fs.val, path, content).ret]
    ELSE [fs |-> fs, ret |-> Bool(FALSE)]

\* pub fn write_file
write_file(fs, path, content) ==
    IF fs.tag = "Some"
    THEN [fs |-> Some(vfs_write_file(fs.val, path, content).vfs),
          ret |-> vfs_write_file(fs.val, path, content).ret]
    ELSE [fs |-> fs, ret |-> Bool(FALSE)]

----------------------------------------------------------------------------
(* syscalls.rs: file descriptor table *)

MAX_OPEN_FILES == 32

\* static GLOBAL_FD_TABLE initialiser (syscalls.rs:124-127)
ProcessFdTable_static == [fds |-> <<>>, next_fd |-> 3]

\* FileDescriptor::new: a path longer than the String's capacity is not stored
FileDescriptor_new(fd, path, flags) ==
    [fd |-> fd, path |-> push_str("", path, MAX_FILENAME), flags |-> flags,
     offset |-> 0, is_open |-> TRUE]

\* ProcessFdTable::new
ProcessFdTable_new ==
    [fds |-> <<FileDescriptor_new(0, "/dev/stdin", 0),
               FileDescriptor_new(1, "/dev/stdout", 1),
               FileDescriptor_new(2, "/dev/stderr", 1)>>,
     next_fd |-> 3]

\* Result<i32, i32>
ResultOk(v) == [tag |-> "Ok", val |-> v, msg |-> ""]
ResultErr(e) == [tag |-> "Err", val |-> e, msg |-> ""]

\* ProcessFdTable::open_file
open_file(fdt, path, flags) ==
    IF Len(fdt.fds) = MAX_OPEN_FILES
    THEN [fdt |-> fdt, ret |-> ResultErr(-24)]
    ELSE [fdt |-> [fds |-> Append(fdt.fds, FileDescriptor_new(fdt.next_fd, path, flags)),
                   next_fd |-> fdt.next_fd + 1],
          ret |-> ResultOk(fdt.next_fd)]

\* ProcessFdTable::get_fd: the first open descriptor with that number
get_fd(fdt, fd) ==
    LET hits == {i \in 1..Len(fdt.fds) : fdt.fds[i].fd = fd /\ fdt.fds[i].is_open}
    IN IF hits = {} THEN None
       ELSE [tag |-> "Some", val |-> fdt.fds[Min(hits)], msg |-> ""]

\* Variant of sys_exit that returns 0 to its caller
sys_exit_returns(pm, fdt, status) ==
    [pm |-> terminate_process(pm, pm.current_pid).pm, fdt |-> fdt, ret |-> I64(0)]

\* sys_exit: terminates the current pid, then waits for events for ever
sys_exit(pm, fdt, status) ==
    [pm |-> terminate_process(pm, pm.current_pid).pm, fdt |-> fdt, ret |-> Diverges]

\* sys_open: the path is the fixed string "/tmp/testfile"; flags as u32
sys_open(pm, fdt, pathname, flags, mode) ==
    LET o == open_file(fdt, "/tmp/testfile", as_u32(flags))
    IN [pm |-> pm, fdt |-> o.fdt, ret |-> I64(o.ret.val)]

\* sys_read; fs is the static VFS, time_us the count the timer holds at the call
sys_read(pm, fdt, fs, time_us, fd, buf, count) ==
    LET file_desc == get_fd(fdt, fd)
        content == read_file(fs, file_desc.val.path, time_us)
    IN [pm |-> pm, fdt |-> fdt,
        ret |-> IF fd = 0 THEN I64(0)
                ELSE IF file_desc.tag = "Some"
                     THEN IF content.tag = "Some"
                          THEN I64(Min({count, Len(content.val)}))
                          ELSE I64(-2)
                     ELSE I64(-9)]

\* sys_write; count as i64
sys_write(pm, fdt, fd, buf, count) ==
    [pm |-> pm, fdt |-> fdt,
     ret |-> IF fd = 1 \/ fd = 2 THEN I64(as_i64(count))
             ELSE IF get_fd(fdt, fd).tag = "Some" THEN I64(as_i64(count))
             ELSE I64(-9)]

\* sys_getpid
sys_getpid(pm, fdt) == [pm |-> pm, fdt |-> fdt, ret |-> I64(pm.current_pid)]

\* sys_getppid
sys_getppid(pm, fdt) ==
    LET process == get_process(pm, pm.current_pid)
    IN [pm |-> pm, fdt |-> fdt,
        ret |-> IF process.tag = "Some" THEN I64(process.val.ppid) ELSE I64(1)]

\* sys_kill: terminates pid as u32 whatever sig is
sys_kill(pm, fdt, pid, sig) ==
    LET t == terminate_process(pm, as_u32(pid))
    IN [pm |-> t.pm, fdt |-> fdt,
        ret |-> IF t.ret.tag = "true" THEN I64(0) ELSE I64(-3)]

\* Variant of the default arm of handle_syscall that answers -1
sys_unknown_eperm(pm, fdt, syscall_num) == [pm |-> pm, fdt |-> fdt, ret |-> I64(-1)]

\* handle_syscall, default arm: prints the number, returns -38 (ENOSYS)
sys_unknown(pm, fdt, syscall_num) == [pm |-> pm, fdt |-> fdt, ret |-> I64(-38)]

\* sys_getcwd: size as i64
sys_getcwd(pm, fdt, buf, size) == [pm |-> pm, fdt |-> fdt, ret |-> I64(as_i64(size))]

\* handle_syscall; fs is the static VFS, time_us the count the timer holds at the
\* call
handle_syscall(pm, fdt, fs, time_us, syscall_num, arg0, arg1, arg2) ==
    IF syscall_num = 93 THEN sys_exit(pm, fdt, as_i32(arg0))
    ELSE IF syscall_num = 57
         THEN LET f == sys_fork(pm) IN [pm |-> f.pm, fdt |-> fdt, ret |-> f.ret]
    ELSE IF syscall_num = 56 THEN sys_open(pm, fdt, arg0, arg1, arg2)
    ELSE IF syscall_num = 63 THEN sys_read(pm, fdt, fs, time_us, as_i32(arg0), arg1, arg2)
    ELSE IF syscall_num = 64 THEN sys_write(pm, fdt, as_i32(arg0), arg1, arg2)
    ELSE IF syscall_num = 172 THEN sys_getpid(pm, fdt)
    ELSE IF syscall_num = 173 THEN sys_getppid(pm, fdt)
    ELSE IF syscall_num = 129 THEN sys_kill(pm, fdt, as_i32(arg0), as_i32(arg1))
    ELSE IF syscall_num = 49 THEN [pm |-> pm, fdt |-> fdt, ret |-> I64(0)]
    ELSE IF syscall_num = 79 THEN sys_getcwd(pm, fdt, arg0, arg1)
    ELSE IF syscall_num \in {83, 87, 21, 106} THEN [pm |-> pm, fdt |-> fdt, ret |-> I64(0)]
    ELSE sys_unknown(pm, fdt, syscall_num)

----------------------------------------------------------------------------
(* interrupt.rs *)

GIC_DISTRIBUTOR_BASE == 536875008      \* 0x2000_1000
GIC_CPU_INTERFACE_BASE == 536879104    \* 0x2000_2000
GICD_CTLR == 0
GICD_TYPER == 4
GICD_ISENABLER == 256
GICD_ICENABLER == 384
GICD_ISPENDR == 512
GICD_ICPENDR == 640
GICD_IPRIORITYR == 1024
GICD_ITARGETSR == 2048
GICC_CTLR == 0
GICC_PMR == 4
GICC_IAR == 12
GICC_EOIR == 16
IRQ_TIMER == 64
IRQ_UART0 == 153
IRQ_GPIO == 113
SPURIOUS_MIN == 1020

\* VBAR_EL1 holds the address of _start_vectors or was never loaded
START_VECTORS == "_start_vectors"
VBAR_UNSET == "unset"

\* registers before init_interrupts: IRQs masked (DAIF.I set), VBAR_EL1 not loaded,
\* distributor and CPU interface disabled, no line enabled or pending; the type
\* register reports 160 lines, the smallest number that has IRQ_UART0 = 153 as a
\* line; the log holds the register writes of the last controller operation
hw_reset ==
    [irq_masked |-> TRUE, vbar_el1 |-> VBAR_UNSET,
     gicd_ctlr |-> 0, gicc_ctlr |-> 0, gicc_pmr |-> 0, enabled |-> {},
     typer |-> 4, pending |-> {}, priority |-> [l \in {} |-> 0],
     target |-> [l \in {} |-> 0], log |-> <<>>]

\* InterruptController::new
InterruptController_new ==
    [gic_dist_base |-> GIC_DISTRIBUTOR_BASE, gic_cpu_base |-> GIC_CPU_INTERFACE_BASE]

\* a 32-bit register value of one bit per line is the set of its 1 bits;
\* 0xFFFFFFFF is every bit
AllBits == 0..31

\* a 32-bit register value of one byte per line is its four bytes, lowest first
Bytes4(b) == <<b, b, b, b>>

\* number of lines the type register reports: ((typer & 0x1F) + 1) * 32
num_lines_of(typer) == ((typer % 32) + 1) * 32

\* the lines a one-bit-per-line register at byte offset off of its block covers
BankLines(h, off, bits) ==
    {l \in {32 * (off \div 4) + b : b \in bits} : l < num_lines_of(h.typer)}

\* the lines a one-byte-per-line register at byte offset off of its block covers
ByteLines(h, off) == {l \in off..(off + 3) : l < num_lines_of(h.typer)}

\* one logged register write: the register block, the byte offset inside it and
\* whether the distributor and the CPU interface were enabled when it was made
LogEntry(h, block, off) ==
    [block |-> block, off |-> off, dist_on |-> h.gicd_ctlr = 1, cpu_on |-> h.gicc_ctlr = 1]

\* read_distributor_reg: the type register, or a set-enable bank (which reads
\* back the enable bits of its lines)
read_distributor_reg(h, offset) ==
    IF offset = GICD_TYPER THEN h.typer
    ELSE {b \in AllBits : 32 * ((offset - GICD_ISENABLER) \div 4) + b \in h.enabled}

\* write_distributor_reg: the control register, write-1-to-set and write-1-to-clear
\* banks of the enable and pending state, priority and target bytes; bits and
\* bytes of lines that are not implemented are ignored
write_distributor_reg(h, offset, value) ==
    IF offset = GICD_CTLR
    THEN [h EXCEPT !.gicd_ctlr = value, !.log = Append(@, LogEntry(h, "GICD_CTLR", 0))]
    ELSE IF offset >= GICD_ISENABLER /\ offset < GICD_ICENABLER
    THEN [h EXCEPT !.enabled = @ \cup BankLines(h, offset - GICD_ISENABLER, value),
                   !.log = Append(@, LogEntry(h, "GICD_ISENABLER", offset - GICD_ISENABLER))]
    ELSE IF offset >= GICD_ICENABLER /\ offset < GICD_ISPENDR
    THEN [h EXCEPT !.enabled = @ \ BankLines(h, offset - GICD_ICENABLER, value),
                   !.log = Append(@, LogEntry(h, "GICD_ICENABLER", offset - GICD_ICENABLER))]
    ELSE IF offset >= GICD_ICPENDR /\ offset < GICD_ICPENDR + 128
    THEN [h EXCEPT !.pending = @ \ BankLines(h, offset - GICD_ICPENDR, value),
                   !.log = Append(@, LogEntry(h, "GICD_ICPENDR", offset - GICD_ICPENDR))]
    ELSE IF offset >= GICD_IPRIORITYR /\ offset < GICD_ITARGETSR
    THEN [h EXCEPT !.priority = [l \in ByteLines(h, offset - GICD_IPRIORITYR) |->
                                     value[l - (offset - GICD_IPRIORITYR) + 1]] @@ @,
                   !.log = Append(@, LogEntry(h, "GICD_IPRIORITYR", offset - GICD_IPRIORITYR))]
    ELSE [h EXCEPT !.target = [l \in ByteLines(h, offset - GICD_ITARGETSR) |->
                                   value[l - (offset - GICD_ITARGETSR) + 1]] @@ @,
                   !.log = Append(@, LogEntry(h, "GICD_ITARGETSR", offset - GICD_ITARGETSR))]

\* write_cpu_reg: the control and priority-mask registers hold what is written;
\* a write to the end-of-interrupt register, or to any other offset of the CPU
\* interface, changes none of the registers followed here
write_cpu_reg(h, offset, value) ==
    IF offset = GICC_CTLR
    THEN [h EXCEPT !.gicc_ctlr = value, !.log = Append(@, LogEntry(h, "GICC_CTLR", 0))]
    ELSE IF offset = GICC_PMR
    THEN [h EXCEPT !.gicc_pmr = value, !.log = Append(@, LogEntry(h, "GICC_PMR", 0))]
    ELSE IF offset = GICC_EOIR
    THEN [h EXCEPT !.log = Append(@, LogEntry(h, "GICC_EOIR", 0))]
    ELSE [h EXCEPT !.log = Append(@, LogEntry(h, "GICC", offset))]

\* Variant of enable_interrupt that writes the new bit into bank 0
enable_interrupt_bank0(h, irq) ==
    LET bit_offset == irq % 32
        current == read_distributor_reg(h, GICD_ISENABLER)
    IN write_distributor_reg(h, GICD_ISENABLER, current \cup {bit_offset})

\* InterruptController::enable_interrupt: read the bank, write it back with the
\* bit of the line set
enable_interrupt(h, irq) ==
    LET reg_offset == (irq \div 32) * 4
        bit_offset == irq % 32
        reg_addr == GICD_ISENABLER + reg_offset
        current == read_distributor_reg(h, reg_addr)
    IN write_distributor_reg(h, reg_addr, current \cup {bit_offset})

\* InterruptController::disable_interrupt
disable_interrupt(h, irq) ==
    LET reg_offset == (irq \div 32) * 4
        bit_offset == irq % 32
        reg_addr == GICD_ICENABLER + reg_offset
    IN write_distributor_reg(h, reg_addr, {bit_offset})

\* for i in (from..to).step_by(step) { write_distributor_reg(base + i / div, value) }
RECURSIVE write_each(_, _, _, _, _, _, _)
write_each(h, base, div, value, i, to, step) ==
    IF i >= to THEN h
    ELSE LET w == write_distributor_reg(h, base + (i \div div), value)
         IN CASE Len(w.log) > 0 -> write_each(w, base, div, value, i + step, to, step)

\* Variant of init_distributor that enables the distributor before the loops
init_distributor_enabled_early(h) ==
    LET h0 == write_distributor_reg(h, GICD_CTLR, 1)
        num_lines == num_lines_of(read_distributor_reg(h0, GICD_TYPER))
        h1 == write_each(h0, GICD_ICENABLER, 8, AllBits, 0, num_lines, 32)
        h2 == write_each(h1, GICD_ICPENDR, 8, AllBits, 0, num_lines, 32)
        h3 == write_each(h2, GICD_IPRIORITYR, 1, Bytes4(160), 0, num_lines, 4)
        h4 == write_each(h3, GICD_ITARGETSR, 1, Bytes4(1), 32, num_lines, 4)
    IN [hw |-> h4, ret |-> Ok]

\* InterruptController::init_distributor
init_distributor(h) ==
    LET h0 == write_distributor_reg(h, GICD_CTLR, 0)
        num_lines == num_lines_of(read_distributor_reg(h0, GICD_TYPER))
        h1 == write_each(h0, GICD_ICENABLER, 8, AllBits, 0, num_lines, 32)
        h2 == write_each(h1, GICD_ICPENDR, 8, AllBits, 0, num_lines, 32)
        h3 == write_each(h2, GICD_IPRIORITYR, 1, Bytes4(160), 0, num_lines, 4)
        h4 == write_each(h3, GICD_ITARGETSR, 1, Bytes4(1), 32, num_lines, 4)
    IN [hw |-> write_distributor_reg(h4, GICD_CTLR, 1), ret |-> Ok]

\* InterruptController::init_cpu_interface
init_cpu_interface(h) ==
    [hw |-> write_cpu_reg(write_cpu_reg(h, GICC_PMR, 255), GICC_CTLR, 1), ret |-> Ok]

\* InterruptController::init, with `?` after each of its two fallible calls; the
\* log holds the register writes of this call
ic_init(h) ==
    LET d == init_distributor([h EXCEPT !.log = <<>>])
    IN IF d.ret.tag = "Err" THEN d
       ELSE LET c == init_cpu_interface(d.hw)
            IN IF c.ret.tag = "Err" THEN c
               ELSE [hw |-> enable_interrupt(
                               enable_interrupt(
                                   enable_interrupt(c.hw, IRQ_TIMER), IRQ_UART0), IRQ_GPIO),
                     ret |-> Ok]

\* one access made by handle_interrupt: a CPU-interface register read or write, or
\* a line written to the UART
RegRead(reg, val) == [op |-> "read", reg |-> reg, val |-> val, text |-> ""]
RegWrite(reg, val) == [op |-> "write", reg |-> reg, val |-> val, text |-> ""]
UartWrite(text, val) == [op |-> "uart", reg |-> 0, val |-> val, text |-> text]

\* the match of handle_interrupt: the reaction to one IRQ number
irq_reaction(irq) ==
    IF irq = IRQ_TIMER THEN UartWrite("Timer interrupt received", 0)
    ELSE IF irq = IRQ_UART0 THEN UartWrite("UART interrupt received", 0)
    ELSE IF irq = IRQ_GPIO THEN UartWrite("GPIO interrupt received", 0)
    ELSE UartWrite("Unknown interrupt: ", irq)

\* Variant of handle_interrupt that writes the interrupt number, not the
\* acknowledge value, to the end-of-interrupt register
handle_interrupt_eoi_irq(iar) ==
    LET irq == iar % 1024
    IN IF irq >= SPURIOUS_MIN
       THEN [ret |-> None, accesses |-> <<RegRead(GICC_IAR, iar)>>]
       ELSE [ret |-> Some(irq),
             accesses |-> <<RegRead(GICC_IAR, iar), irq_reaction(irq),
                            RegWrite(GICC_EOIR, irq)>>]

\* Variant of handle_interrupt that completes spurious interrupts too
handle_interrupt_eoi_always(iar) ==
    LET irq == iar % 1024
    IN [ret |-> IF irq >= SPURIOUS_MIN THEN None ELSE Some(irq),
        accesses |-> <<RegRead(GICC_IAR, iar), irq_reaction(irq),
                       RegWrite(GICC_EOIR, iar)>>]

\* InterruptController::handle_interrupt, for the value iar that the read of
\* GICC_IAR returns; irq = iar & 0x3FF
handle_interrupt(iar) ==
    LET irq == iar % 1024
    IN IF irq >= SPURIOUS_MIN
       THEN [ret |-> None, accesses |-> <<RegRead(GICC_IAR, iar)>>]
       ELSE [ret |-> Some(irq),
             accesses |-> <<RegRead(GICC_IAR, iar), irq_reaction(irq),
                            RegWrite(GICC_EOIR, iar)>>]

\* rust_irq_handler: calls handle_interrupt on the installed controller and drops
\* its Option; nothing happens while no controller is installed; returns ()
rust_irq_handler(ic, iar) ==
    IF ic.tag = "Some"
    THEN [ret |-> Unit, accesses |-> handle_interrupt(iar).accesses]
    ELSE [ret |-> Unit, accesses |-> <<>>]

----------------------------------------------------------------------------
(* interrupt.rs, lines 185-321: the exception vector table and irq_handler *)

\* the four exception classes of the table and the four slots of each class
ExceptionClasses == {"sp0", "spx", "aarch64", "aarch32"}
ExceptionKinds == {"sync", "irq", "fiq", "serror"}

\* instructions of irq_handler
Stp(a, b) == [op |-> "stp", a |-> a, b |-> b]
Str(a) == [op |-> "str", a |-> a, b |-> a]
Ldp(a, b) == [op |-> "ldp", a |-> a, b |-> b]
Ldr(a) == [op |-> "ldr", a |-> a, b |-> a]
Bl == [op |-> "bl", a |-> 0, b |-> 0]
Eret == [op |-> "eret", a |-> 0, b |-> 0]

\* Variant of irq_handler that restores the pairs x1..x4 in the order they were
\* saved
irq_handler_restore_in_save_order ==
    << Stp(29, 30), Stp(27, 28), Stp(25, 26), Stp(23, 24), Stp(21, 22), Stp(19, 20),
       Stp(17, 18), Stp(15, 16), Stp(13, 14), Stp(11, 12), Stp(9, 10), Stp(7, 8),
       Stp(5, 6), Stp(3, 4), Stp(1, 2), Str(0),
       Bl,
       Ldr(0), Ldp(3, 4), Ldp(1, 2), Ldp(5, 6), Ldp(7, 8), Ldp(9, 10), Ldp(11, 12),
       Ldp(13, 14), Ldp(15, 16), Ldp(17, 18), Ldp(19, 20), Ldp(21, 22), Ldp(23, 24),
       Ldp(25, 26), Ldp(27, 28), Ldp(29, 30),
       Eret >>

\* irq_handler, lines 278-319
irq_handler ==
    << Stp(29, 30), Stp(27, 28), Stp(25, 26), Stp(23, 24), Stp(21, 22), Stp(19, 20),
       Stp(17, 18), Stp(15, 16), Stp(13, 14), Stp(11, 12), Stp(9, 10), Stp(7, 8),
       Stp(5, 6), Stp(3, 4), Stp(1, 2), Str(0),
       Bl,
       Ldr(0), Ldp(1, 2), Ldp(3, 4), Ldp(5, 6), Ldp(7, 8), Ldp(9, 10), Ldp(11, 12),
       Ldp(13, 14), Ldp(15, 16), Ldp(17, 18), Ldp(19, 20), Ldp(21, 22), Ldp(23, 24),
       Ldp(25, 26), Ldp(27, 28), Ldp(29, 30),
       Eret >>

\* the registers a call may change under the procedure call standard: x0..x18 and
\* the link register x30
CallerSaved == (0..18) \cup {30}

\* the interrupted context before any exception: registers x0..x30, the stack
\* pointer, the stack memory written so far (address -> value), the position
\* (at: "context", "vector", "stub" or "irq_handler"; index: next instruction of
\* irq_handler), the register values at exception entry and the number of calls
\* of rust_irq_handler since then
cpu_reset ==
    [at |-> "context", class |-> "", kind |-> "", index |-> 0,
     x |-> [i \in 0..30 |-> 0], sp |-> 0, mem |-> <<>>,
     entry |-> [x |-> [i \in 0..30 |-> 0], sp |-> 0], calls |-> 0]

\* stp xa, xb, [sp, #-16]!  and  str xa, [sp, #-16]!
push_pair(c, a, b) ==
    [c EXCEPT !.sp = @ - 16,
              !.mem = ((c.sp - 16) :> c.x[a]) @@ ((c.sp - 8) :> c.x[b]) @@ @]
push_one(c, a) ==
    [c EXCEPT !.sp = @ - 16, !.mem = ((c.sp - 16) :> c.x[a]) @@ @]

\* ldp xa, xb, [sp], #16  and  ldr xa, [sp], #16
pop_pair(c, a, b) ==
    [c EXCEPT !.sp = @ + 16, !.x = [@ EXCEPT ![a] = c.mem[c.sp], ![b] = c.mem[c.sp + 8]]]
pop_one(c, a) ==
    [c EXCEPT !.sp = @ + 16, !.x = [@ EXCEPT ![a] = c.mem[c.sp]]]

\* bl rust_irq_handler: the callee returns with sp and x19..x29 preserved and the
\* caller-saved registers holding scratch
call_clobber(c, scratch) ==
    [c EXCEPT !.x = [i \in 0..30 |-> IF i \in CallerSaved THEN scratch ELSE c.x[i]],
              !.calls = @ + 1]

\* one instruction of irq_handler other than bl and eret
exec(c, ins) ==
    IF ins.op = "stp" THEN push_pair(c, ins.a, ins.b)
    ELSE IF ins.op = "str" THEN push_one(c, ins.a)
    ELSE IF ins.op = "ldp" THEN pop_pair(c, ins.a, ins.b)
    ELSE pop_one(c, ins.a)

----------------------------------------------------------------------------
(* Kernel operations, statement by statement. An interrupt is taken at an   *)
(* instruction boundary, so between two statements of an operation the      *)
(* singletons hold what its stores have written so far. A task is the call  *)
(* in progress: pc is the statement it executes next, stack the call sites  *)
(* it returns to (innermost first), pid / p / index / i its locals.         *)

NoTask ==
    [op |-> "idle", args |-> <<>>, pc |-> "idle", stack |-> <<>>,
     pid |-> 0,             \* process.rs:52 pid, process.rs:143 pid
     p |-> 0,               \* process.rs:148 position of the iterator (entries visited)
     index |-> 0,           \* process.rs:97 current, process.rs:117 index (1-based)
     i |-> 0,               \* signals.rs:370 i
     ret |-> Unit, delivered |-> <<>>,
     preempted |-> FALSE]   \* an interrupt was handled before the last statement

\* the task after an interrupt was handled: its locals are what they were
\* (irq_handler restores the registers), and an unfinished call was preempted
interrupted(t) ==
    IF t.pc \in {"idle", "return"} THEN t ELSE [t EXCEPT !.preempted = TRUE]

\* the callee returns v: each call site on the stack maps the value it receives
\* and returns in turn, up to the first one that has a statement left to run
RECURSIVE ret_from(_, _)
ret_from(t, v) ==
    IF t.stack = <<>>
    THEN [t EXCEPT !.pc = "return", !.ret = v]
    ELSE LET site == Head(t.stack)
             caller == [t EXCEPT !.stack = Tail(@)]
         IN CASE site = "signals.rs:259" ->
                    ret_from(caller, IF v.tag = "true" THEN Ok
                                     ELSE Err("Failed to terminate process"))
              [] site = "signals.rs:202" -> ret_from(caller, v)
              [] site = "signals.rs:377" -> [caller EXCEPT !.pc = "signals.rs:378"]
              [] site = "syscalls.rs:284" ->
                    ret_from(caller, IF v.tag = "true" THEN I64(0) ELSE I64(-3))

\* ProcessManager::terminate_process, lines 144-145: the state of the first entry
\* with that pid is stored; no entry returns false
terminate_process_enter(t, pm, pid) ==
    LET i == position(pm.processes, pid)
    IN IF i = 0
       THEN [task |-> ret_from(t, Bool(FALSE)), pm |-> pm]
       ELSE [task |-> [t EXCEPT !.pc = "process.rs:148", !.pid = pid, !.p = 0],
             pm |-> [pm EXCEPT !.processes[i].state = "Terminated"]]

\* ProcessManager::terminate_process, lines 148-154: the loop runs to the next
\* child of pid and stores its ppid; past the last entry the call returns true
terminate_process_loop(t, pm) ==
    LET children == {k \in (t.p + 1)..Len(pm.processes) : pm.processes[k].ppid = t.pid}
    IN IF children = {}
       THEN [task |-> ret_from(t, Bool(TRUE)), pm |-> pm]
       ELSE [task |-> [t EXCEPT !.p = Min(children)],
             pm |-> [pm EXCEPT !.processes[Min(children)].ppid = INIT_PID]]

\* SignalHandler::deliver_signal up to its store: the action is looked up, and
\* terminate_process is entered or set_process_state is called
deliver_signal_enter(t, pm, sh, target_pid, signal, sender_pid) ==
    LET called == [t EXCEPT !.delivered =
                      Append(@, DeliverCall(target_pid, signal, sender_pid))]
        action == sh.signal_handlers[signal - 1]
        kind == IF action.kind # "Default" THEN action.kind
                ELSE IF default_action(signal).kind \in {"Stop", "Continue", "Ignore"}
                     THEN default_action(signal).kind
                     ELSE "Terminate"
    IN IF kind \in {"Terminate", "Core"}
       THEN terminate_process_enter([called EXCEPT !.stack = <<"signals.rs:259">> \o @],
                                    pm, target_pid)
       ELSE IF kind = "Stop"
            THEN [task |-> ret_from(called, stop_process(pm, target_pid).ret),
                  pm |-> stop_process(pm, target_pid).pm]
       ELSE IF kind = "Continue"
            THEN [task |-> ret_from(called, continue_process(pm, target_pid).ret),
                  pm |-> continue_process(pm, target_pid).pm]
       ELSE [task |-> ret_from(called, Ok), pm |-> pm]

\* a call of op(args) about to execute its first statement
task_of(op, args) == [NoTask EXCEPT !.op = op, !.args = args]

\* ProcessManager::create_process(entry_point, parent_pid), lines 48-53
create_process_enter(t, pm) ==
    IF Len(pm.processes) = MAX_PROCESSES
    THEN [task |-> ret_from(t, None), pm |-> pm]
    ELSE [task |-> [t EXCEPT !.pc = "process.rs:66", !.pid = pm.next_pid],
          pm |-> [pm EXCEPT !.next_pid = @ + 1]]

\* ProcessManager::schedule, line 94, in a build with (checks) or without
\* overflow checks
schedule_enter(checks, t, pm) ==
    IF checks /\ as_u32(pm.scheduler_tick + 1) = 0
    THEN [task |-> ret_from(t, Diverges), pm |-> pm]
    ELSE [task |-> [t EXCEPT !.pc = "process.rs:97"],
          pm |-> [pm EXCEPT !.scheduler_tick = as_u32(@ + 1)]]

\* pub fn block_signal(signal_num), lines 433-440 and 346-355
block_signal_enter(t, sh) ==
    IF from_i32(t.args[1]).tag = "None"
    THEN [task |-> ret_from(t, Err("Invalid signal number")), sh |-> sh]
    ELSE [task |-> ret_from(t, Ok),
          sh |-> IF ~is_uncatchable(t.args[1])
                 THEN [sh EXCEPT !.signal_mask = bit_or(@, signal_bit(t.args[1]))]
                 ELSE sh]

\* pub fn unblock_signal(signal_num), lines 443-450 and 358-359
unblock_signal_enter(t, sh) ==
    IF from_i32(t.args[1]).tag = "None"
    THEN [task |-> ret_from(t, Err("Invalid signal number")), sh |-> sh]
    ELSE [task |-> [t EXCEPT !.pc = "signals.rs:371", !.i = 0],
          sh |-> [sh EXCEPT !.signal_mask = bit_clear(@, signal_bit(t.args[1]))]]

\* pub fn send_signal(target_pid, signal_num, sender_pid), lines 414-421 and
\* 176-202
send_signal_enter(t, pm, sh) ==
    IF from_i32(t.args[2]).tag = "None"
    THEN [task |-> ret_from(t, Err("Invalid signal number")), pm |-> pm, sh |-> sh]
    ELSE IF bit_test(sh.signal_mask, signal_bit(t.args[2])) /\ ~is_uncatchable(t.args[2])
    THEN IF Len(sh.pending_signals) # MAX_PENDING_SIGNALS
         THEN [task |-> ret_from(t, Ok), pm |-> pm,
               sh |-> [sh EXCEPT !.pending_signals =
                          Append(@, [signal |-> t.args[2], sender_pid |-> t.args[3]])]]
         ELSE [task |-> ret_from(t, Err("Too many pending signals")), pm |-> pm, sh |-> sh]
    ELSE LET d == deliver_signal_enter([t EXCEPT !.stack = <<"signals.rs:202">>],
                                       pm, sh, t.args[1], t.args[2], t.args[3])
         IN [task |-> d.task, pm |-> d.pm, sh |-> sh]

\* handle_syscall(172, ..), lines 137 and 263-267: sys_getpid
sys_getpid_enter(t, pm) == [task |-> ret_from(t, I64(pm.current_pid)), pm |-> pm]

\* handle_syscall(129, arg0, arg1, ..), lines 139 and 284: sys_kill(arg0 as i32,
\* arg1 as i32) calls terminate_process(pid as u32)
sys_kill_enter(t, pm) ==
    terminate_process_enter([t EXCEPT !.stack = <<"syscalls.rs:284">>], pm,
                            as_u32(as_i32(t.args[2])))

\* the statement at t.pc
step(t, pm, sh) ==
    CASE t.pc = "process.rs:66" ->
           \* process.rs:55-67
           [task |-> ret_from(t, Some(t.pid)),
            pm |-> [pm EXCEPT !.processes =
                       Append(@, [pid |-> t.pid,
                                  ppid |-> t.args[2],
                                  state |-> "Ready",
                                  stack_ptr |-> 4194304 + t.pid * 1048576,
                                  entry_point |-> t.args[1],
                                  priority |-> DEFAULT_PRIORITY,
                                  time_slice |-> DEFAULT_TIME_SLICE,
                                  used_time |-> 0])],
            sh |-> sh]
      [] t.pc = "process.rs:97" ->
           \* process.rs:97-98
           LET ci == position(pm.processes, pm.current_pid)
           IN IF ci = 0
              THEN [task |-> [t EXCEPT !.pc = "process.rs:112"], pm |-> pm, sh |-> sh]
              ELSE [task |-> [t EXCEPT !.pc = "process.rs:101", !.index = ci],
                    pm |-> [pm EXCEPT !.processes[ci].used_time = @ + 1], sh |-> sh]
      [] t.pc = "process.rs:101" ->
           \* process.rs:101-106
           LET current == pm.processes[t.index]
           IN IF current.used_time >= current.time_slice \/ current.state # "Running"
              THEN [task |-> [t EXCEPT !.pc = "process.rs:107"],
                    pm |-> [pm EXCEPT !.processes[t.index].state =
                               IF @ = "Running" THEN "Ready" ELSE @],
                    sh |-> sh]
              ELSE [task |-> [t EXCEPT !.pc = "process.rs:112"], pm |-> pm, sh |-> sh]
      [] t.pc = "process.rs:107" ->
           [task |-> [t EXCEPT !.pc = "process.rs:112"],
            pm |-> [pm EXCEPT !.processes[t.index].used_time = 0], sh |-> sh]
      [] t.pc = "process.rs:112" ->
           \* process.rs:112-119, 125
           LET n == Len(pm.processes)
               ci == position(pm.processes, pm.current_pid)
               current_index == IF ci = 0 THEN 0 ELSE ci - 1
               ready == {k \in 1..n :
                           pm.processes[((current_index + k) % n) + 1].state = "Ready"}
           IN IF ready = {}
              THEN [task |-> ret_from(t, None), pm |-> pm, sh |-> sh]
              ELSE LET index == ((current_index + Min(ready)) % n) + 1
                   IN [task |-> [t EXCEPT !.pc = "process.rs:120", !.index = index],
                       pm |-> [pm EXCEPT !.current_pid = pm.processes[index].pid],
                       sh |-> sh]
      [] t.pc = "process.rs:120" ->
           \* process.rs:120-121
           [task |-> ret_from(t, Some(pm.current_pid)),
            pm |-> [pm EXCEPT !.processes[t.index].state = "Running"], sh |-> sh]
      [] t.pc = "process.rs:148" ->
           LET l == terminate_process_loop(t, pm)
           IN [task |-> l.task, pm |-> l.pm, sh |-> sh]
      [] t.pc = "signals.rs:371" ->
           \* signals.rs:371-377, 380; the public unblock_signal then returns Ok
           IF ~(t.i < Len(sh.pending_signals))
           THEN [task |-> ret_from(t, Ok), pm |-> pm, sh |-> sh]
           ELSE LET pending == sh.pending_signals[t.i + 1]
                IN IF ~bit_test(sh.signal_mask, signal_bit(pending.signal))
                   THEN LET d == deliver_signal_enter(
                                     [t EXCEPT !.stack = <<"signals.rs:377">>], pm, sh,
                                     0, pending.signal, pending.sender_pid)
                        IN [task |-> d.task, pm |-> d.pm, sh |-> sh]
                   ELSE [task |-> [t EXCEPT !.i = @ + 1], pm |-> pm, sh |-> sh]
      [] t.pc = "signals.rs:378" ->
           [task |-> [t EXCEPT !.pc = "signals.rs:371"], pm |-> pm,
            sh |-> [sh EXCEPT !.pending_signals = vec_remove(@, t.i)]]

----------------------------------------------------------------------------
(* State machine: one action per operation of the singletons *)

NoAction == [kind |-> "None", addr |-> 0]
NoRun == [n |-> 0, pids |-> <<>>]

AllReady(pm) ==
    /\ Len(pm.processes) >= 1
    /\ \A i \in 1..Len(pm.processes) : pm.processes[i].state = "Ready"

\* run after an operation other than schedule(): a new run starts when all are Ready
RunAfterOther(pm) ==
    IF AllReady(pm) THEN [n |-> Len(pm.processes), pids |-> <<>>] ELSE NoRun

\* run after schedule() returned ret: the run records up to n returned pids (0: none)
RunAfterSchedule(ret) ==
    IF run.n > 0 /\ Len(run.pids) < run.n
    THEN [run EXCEPT !.pids = Append(@, ret.val)]
    ELSE NoRun

Init ==
    /\ PROCESS_MANAGER = ProcessManager_new
    /\ GLOBAL_SIGNAL_HANDLER = SignalHandler_static
    /\ last = [op |-> "boot", args |-> <<>>, act |-> NoAction, ret |-> Unit,
               delivered |-> <<>>]
    /\ run = NoRun
    /\ GLOBAL_FD_TABLE = ProcessFdTable_static
    /\ VFS = None
    /\ INTERRUPT_CONTROLLER = None
    /\ hw = hw_reset
    /\ mmio = <<>>
    /\ init_pc = "idle"
    /\ cpu = cpu_reset
    /\ task = NoTask
    /\ alone = [pm |-> ProcessManager_new, sh |-> SignalHandler_static,
                fdt |-> ProcessFdTable_static, ret |-> Unit]

\* an operation other than schedule(): new singletons, recorded call and the
\* deliver_signal calls it made
OpDelivering(name, args, action, pm, sh, ret, delivered) ==
    /\ PROCESS_MANAGER' = pm
    /\ GLOBAL_SIGNAL_HANDLER' = sh
    /\ last' = [op |-> name, args |-> args, act |-> action, ret |-> ret,
                delivered |-> delivered]
    /\ run' = RunAfterOther(pm)
    /\ UNCHANGED <<GLOBAL_FD_TABLE, VFS, irqvars, opvars>>

\* an operation that delivers no signal
Op(name, args, action, pm, sh, ret) ==
    OpDelivering(name, args, action, pm, sh, ret, <<>>)

CreateProcessAt(entries, maxLen, parents) ==
    /\ Len(PROCESS_MANAGER.processes) < maxLen
    /\ \E e \in entries, parent \in parents :
         LET r == create_process(PROCESS_MANAGER, e, parent)
         IN Op("create_process", <<e, parent>>, NoAction, r.pm, GLOBAL_SIGNAL_HANDLER, r.ret)

CreateProcess(maxLen, parents) == CreateProcessAt(EntryPoints, maxLen, parents)

CreateInitProcess(maxLen) ==
    /\ Len(PROCESS_MANAGER.processes) < maxLen
    /\ \E e \in EntryPoints :
         LET r == create_init_process(PROCESS_MANAGER, e)
         IN Op("create_init_process", <<e>>, NoAction, r.pm, GLOBAL_SIGNAL_HANDLER, r.ret)

SysFork(maxLen) ==
    /\ Len(PROCESS_MANAGER.processes) < maxLen
    /\ LET r == sys_fork(PROCESS_MANAGER)
       IN Op("sys_fork", <<>>, NoAction, r.pm, GLOBAL_SIGNAL_HANDLER, r.ret)

\* schedule(), as either build computes it
Schedule(maxTicks) ==
    /\ PROCESS_MANAGER.scheduler_tick < maxTicks
    /\ \E r \in {schedule(PROCESS_MANAGER), schedule_overflow_checks(PROCESS_MANAGER)} :
          /\ PROCESS_MANAGER' = r.pm
          /\ last' = [op |-> "schedule", args |-> <<>>, act |-> NoAction, ret |-> r.ret,
                      delivered |-> <<>>]
          /\ run' = RunAfterSchedule(r.ret)
          /\ UNCHANGED <<GLOBAL_SIGNAL_HANDLER, GLOBAL_FD_TABLE, VFS, irqvars, opvars>>

TerminateProcess(pids) ==
    \E pid \in pids :
      LET r == terminate_process(PROCESS_MANAGER, pid)
      IN Op("terminate_process", <<pid>>, NoAction, r.pm, GLOBAL_SIGNAL_HANDLER, r.ret)

\* PROCESS_MANAGER.set_process_state(pid, state), called directly
SetProcessState(pids, states) ==
    \E pid \in pids, state \in states :
      LET r == set_process_state(PROCESS_MANAGER, pid, state)
      IN Op("set_process_state", <<pid, state>>, NoAction, r.pm, GLOBAL_SIGNAL_HANDLER, r.ret)

\* init_signals
InitSignals ==
    Op("init_signals", <<>>, NoAction, PROCESS_MANAGER, SignalHandler_new, Unit)

\* a send that would enqueue is explored while the queue is below maxQueue
SendSignal(targets, signals, senders, maxQueue) ==
    \E target_pid \in targets, signal_num \in signals, sender_pid \in senders :
      /\ IF from_i32(signal_num).tag = "None"
         THEN TRUE
         ELSE \/ is_uncatchable(signal_num)
              \/ ~bit_test(GLOBAL_SIGNAL_HANDLER.signal_mask, signal_bit(signal_num))
              \/ Len(GLOBAL_SIGNAL_HANDLER.pending_signals) < maxQueue
      /\ LET r == send_signal(GLOBAL_SIGNAL_HANDLER, PROCESS_MANAGER,
                              target_pid, signal_num, sender_pid)
         IN OpDelivering("send_signal", <<target_pid, signal_num, sender_pid>>, NoAction,
                         r.pm, r.sh, r.ret, r.delivered)

SetSignalHandler(signals, actions) ==
    \E signal_num \in signals, action \in actions :
      LET r == set_signal_handler(GLOBAL_SIGNAL_HANDLER, signal_num, action)
      IN Op("set_signal_handler", <<signal_num>>, action, PROCESS_MANAGER, r.sh, r.ret)

BlockSignal(signals) ==
    \E signal_num \in signals :
      LET r == block_signal(GLOBAL_SIGNAL_HANDLER, signal_num)
      IN Op("block_signal", <<signal_num>>, NoAction, PROCESS_MANAGER, r.sh, r.ret)

UnblockSignal(signals) ==
    \E signal_num \in signals :
      LET r == unblock_signal(GLOBAL_SIGNAL_HANDLER, PROCESS_MANAGER, signal_num)
      IN OpDelivering("unblock_signal", <<signal_num>>, NoAction, r.pm, r.sh, r.ret,
                      r.delivered)

\* handle_keyboard_interrupt(); a call that would enqueue is explored while the
\* queue is below maxQueue
HandleKeyboardInterrupt(maxQueue) ==
    /\ \/ ~bit_test(GLOBAL_SIGNAL_HANDLER.signal_mask, signal_bit(SIGINT))
       \/ Len(GLOBAL_SIGNAL_HANDLER.pending_signals) < maxQueue
    /\ LET r == handle_keyboard_interrupt(GLOBAL_SIGNAL_HANDLER, PROCESS_MANAGER)
       IN OpDelivering("handle_keyboard_interrupt", <<>>, NoAction,
                       r.pm, r.sh, r.ret, r.delivered)

\* an interrupt-path step: recorded call, process and signal state untouched
IrqOp(name, args, ret) ==
    /\ last' = [op |-> name, args |-> args, act |-> NoAction, ret |-> ret,
                delivered |-> <<>>]
    /\ UNCHANGED <<PROCESS_MANAGER, GLOBAL_SIGNAL_HANDLER, run, GLOBAL_FD_TABLE, VFS, cpu,
                   alone>>

\* init_interrupts, line 337: the controller instance is installed
InitInstall ==
    /\ init_pc = "idle"
    /\ INTERRUPT_CONTROLLER' = Some(InterruptController_new)
    /\ init_pc' = "installed"
    /\ IrqOp("init_interrupts:install", <<>>, Unit)
    /\ UNCHANGED <<hw, mmio, task>>

\* init_interrupts, lines 338-340: ic.init()?; an Err returns from init_interrupts
InitController ==
    /\ init_pc = "installed"
    /\ LET r == ic_init(hw)
       IN /\ hw' = r.hw
          /\ init_pc' = IF r.ret.tag = "Ok" THEN "initialized" ELSE "idle"
          /\ IrqOp("init_interrupts:init", <<>>, r.ret)
    /\ UNCHANGED <<INTERRUPT_CONTROLLER, mmio, task>>

\* init_interrupts, lines 344-353: msr vbar_el1
InitVectors ==
    /\ init_pc = "initialized"
    /\ hw' = [hw EXCEPT !.vbar_el1 = START_VECTORS]
    /\ init_pc' = "vectors"
    /\ IrqOp("init_interrupts:vbar", <<>>, Unit)
    /\ UNCHANGED <<INTERRUPT_CONTROLLER, mmio, task>>

\* Variant of the last step of init_interrupts that unmasks before VBAR_EL1 is loaded
InitUnmaskEarly ==
    /\ init_pc = "initialized"
    /\ hw' = [hw EXCEPT !.irq_masked = FALSE]
    /\ init_pc' = "idle"
    /\ IrqOp("init_interrupts:unmask", <<>>, Ok)
    /\ UNCHANGED <<INTERRUPT_CONTROLLER, mmio, task>>

\* init_interrupts, lines 355-362: msr daifclr, #2 and return Ok(())
InitUnmask ==
    /\ init_pc = "vectors"
    /\ hw' = [hw EXCEPT !.irq_masked = FALSE]
    /\ init_pc' = "idle"
    /\ IrqOp("init_interrupts:unmask", <<>>, Ok)
    /\ UNCHANGED <<INTERRUPT_CONTROLLER, mmio, task>>

\* Variant of the IRQ path in which the timer interrupt calls schedule()
IrqReschedules(iars) ==
    /\ ~hw.irq_masked
    /\ \E iar \in iars :
         LET r == rust_irq_handler(INTERRUPT_CONTROLLER, iar)
         IN /\ mmio' = r.accesses
            /\ last' = [op |-> "rust_irq_handler", args |-> <<iar>>, act |-> NoAction,
                        ret |-> r.ret, delivered |-> <<>>]
            /\ PROCESS_MANAGER' = IF r.accesses # <<>> /\ iar % 1024 = IRQ_TIMER
                                   THEN schedule(PROCESS_MANAGER).pm
                                   ELSE PROCESS_MANAGER
    /\ task' = interrupted(task)
    /\ UNCHANGED <<GLOBAL_SIGNAL_HANDLER, run, GLOBAL_FD_TABLE, VFS, INTERRUPT_CONTROLLER, hw,
                   init_pc, cpu, alone>>

\* an IRQ is taken while unmasked: the vector's irq_handler calls
\* rust_irq_handler, and the read of GICC_IAR returns iar
Irq(iars) ==
    /\ ~hw.irq_masked
    /\ \E iar \in iars :
         LET r == rust_irq_handler(INTERRUPT_CONTROLLER, iar)
         IN /\ mmio' = r.accesses
            /\ IrqOp("rust_irq_handler", <<iar>>, r.ret)
    /\ task' = interrupted(task)
    /\ UNCHANGED <<INTERRUPT_CONTROLLER, hw, init_pc>>

\* a file-system call: the new VFS and the recorded call
FsOp(name, args, fs, ret) ==
    /\ VFS' = fs
    /\ last' = [op |-> name, args |-> args, act |-> NoAction, ret |-> ret,
                delivered |-> <<>>]
    /\ UNCHANGED <<PROCESS_MANAGER, GLOBAL_SIGNAL_HANDLER, run, GLOBAL_FD_TABLE, irqvars, opvars>>

\* init_filesystem
InitFilesystem == FsOp("init_filesystem", <<>>, init_filesystem.fs, init_filesystem.ret)

\* create_file(path, content); explored while the VFS holds fewer than maxFiles files
CreateFile(paths, contents, maxFiles) ==
    /\ VFS.tag = "Some" => Len(VFS.val.files) < maxFiles
    /\ \E path \in paths, content \in contents :
         LET r == create_file(VFS, path, content)
         IN FsOp("create_file", <<path, content>>, r.fs, r.ret)

\* write_file(path, content)
WriteFile(paths, contents) ==
    \E path \in paths, content \in contents :
      LET r == write_file(VFS, path, content)
      IN FsOp("write_file", <<path, content>>, r.fs, r.ret)

\* read_file(path) while the timer holds one of the counts times
ReadFile(paths, times) ==
    \E path \in paths, time_us \in times :
      FsOp("read_file", <<path>>, VFS, read_file(VFS, path, time_us))

\* get_filesystem().unwrap().delete_file(path), once init_filesystem has run
DeleteFile(paths) ==
    /\ VFS.tag = "Some"
    /\ \E path \in paths :
         LET r == vfs_delete_file(VFS.val, path)
         IN FsOp("delete_file", <<path>>, Some(r.vfs), r.ret)

\* file_exists(path)
FileExists(paths) ==
    \E path \in paths : FsOp("file_exists", <<path>>, VFS, file_exists(VFS, path))

\* counts of the system timer, in microseconds, at the calls that read it
TimerInputs == {0, 75000000}

\* the kernel is stopped in the wait loop of sys_exit
Halted == last.ret.tag = "Diverges"

\* init_syscalls
InitSyscalls ==
    /\ GLOBAL_FD_TABLE' = ProcessFdTable_new
    /\ last' = [op |-> "init_syscalls", args |-> <<>>, act |-> NoAction, ret |-> Unit,
                delivered |-> <<>>]
    /\ UNCHANGED <<PROCESS_MANAGER, GLOBAL_SIGNAL_HANDLER, run, VFS, irqvars, opvars>>

\* handle_syscall(syscall_num, arg0, arg1, arg2, _, _, _); a fork is explored
\* while the process table is shorter than maxLen, an open while the descriptor
\* table is shorter than maxFds; read (63) is the one call that reads the timer
HandleSyscall(numbers, args0, args1, args2, maxLen, maxFds) ==
    \E syscall_num \in numbers, arg0 \in args0, arg1 \in args1, arg2 \in args2 :
      /\ syscall_num = 57 => Len(PROCESS_MANAGER.processes) < maxLen
      /\ syscall_num = 56 => Len(GLOBAL_FD_TABLE.fds) < maxFds
      /\ \E time_us \in (IF syscall_num = 63 THEN TimerInputs ELSE {0}) :
         LET r == handle_syscall(PROCESS_MANAGER, GLOBAL_FD_TABLE, VFS, time_us,
                                 syscall_num, arg0, arg1, arg2)
         IN /\ PROCESS_MANAGER' = r.pm
            /\ GLOBAL_FD_TABLE' = r.fdt
            /\ last' = [op |-> "handle_syscall",
                        args |-> <<syscall_num, arg0, arg1, arg2>>,
                        act |-> NoAction, ret |-> r.ret, delivered |-> <<>>]
            /\ run' = RunAfterOther(r.pm)
            /\ UNCHANGED <<GLOBAL_SIGNAL_HANDLER, VFS, irqvars, opvars>>

----------------------------------------------------------------------------
(* Spec: the process table under creation, scheduling, termination and     *)
(* immediately delivered signals (handler table and mask as booted)        *)

DeliveredSignals == {SIGCONT, SIGSTOP}
DeliveredTargets == {1, 2}
Senders == {0}

ProcCreate == CreateProcess(MaxTable, ParentPids)
ProcCreateInit == CreateInitProcess(MaxTable)
ProcFork == SysFork(MaxTable)
ProcSchedule == Schedule(MaxTicks)
ProcTerminate == TerminateProcess(PidInputs)
ProcSignal == SendSignal(DeliveredTargets, DeliveredSignals, Senders, MaxPending)
ProcKeyboard == HandleKeyboardInterrupt(MaxPending)

Next ==
    \/ ProcCreate
    \/ ProcCreateInit
    \/ ProcFork
    \/ ProcSchedule
    \/ ProcTerminate
    \/ ProcSignal
    \/ ProcKeyboard

Spec == Init /\ [][Next]_vars

----------------------------------------------------------------------------
(* SpecSig: the signal subsystem under every public signal operation, over *)
(* a small process table                                                   *)

SigInputs == {SIGKILL, SIGTERM, SIGCONT, SIGSTOP}
HandlerSignals == {SIGKILL, SIGTERM, SIGSTOP}
SigTargets == {1, 2}
SigSenders == {0, 1}
ActionInputs == {Default, Ignore, Terminate, Stop, Continue, Core, Custom(8192)}

SigCreate == CreateProcess(MaxSigTable, {0})
SigInit == InitSignals
SigSend == SendSignal(SigTargets, SigInputs, SigSenders, MaxPending)
SigSetHandler == SetSignalHandler(HandlerSignals, ActionInputs)
SigBlock == BlockSignal(SigInputs)
SigUnblock == UnblockSignal(SigInputs)
SigKeyboard == HandleKeyboardInterrupt(MaxPending)

NextSig ==
    \/ SigCreate
    \/ SigInit
    \/ SigSend
    \/ SigSetHandler
    \/ SigBlock
    \/ SigUnblock
    \/ SigKeyboard

SpecSig == Init /\ [][NextSig]_vars

----------------------------------------------------------------------------
(* Claims C1-C6: process table and scheduler, under Spec *)

Procs == PROCESS_MANAGER.processes
RunningEntries == {i \in 1..Len(Procs) : Procs[i].state = "Running"}

\* C1: in every reachable state at most one process of the table is Running.
C1_AtMostOneRunning == Cardinality(RunningEntries) <= 1

\* C2: from a table of N processes that are all Ready, the pids returned by N
\* schedule() calls in a row are pids of the table, pairwise distinct, and after
\* the N-th call every entry of the table has been returned.
C2_RoundRobinDistinct ==
    run.n > 0 =>
      /\ \A i \in 1..Len(run.pids) : \E k \in 1..Len(Procs) : Procs[k].pid = run.pids[i]
      /\ \A i, j \in 1..Len(run.pids) : i # j => run.pids[i] # run.pids[j]
      /\ Len(run.pids) = run.n => Cardinality({run.pids[i] : i \in 1..Len(run.pids)}) = Len(Procs)

\* C3: on every schedule() call made while the current process is Running, that
\* process is charged exactly 1 used_time; when the charge stays below its
\* time_slice it remains the Running current process, and when the charge
\* reaches time_slice it stops being the Running current process.
C3_QuotaEnforcement ==
    [][ (last'.op = "schedule"
         /\ position(Procs, PROCESS_MANAGER.current_pid) # 0
         /\ Procs[position(Procs, PROCESS_MANAGER.current_pid)].state = "Running")
        => LET ci == position(Procs, PROCESS_MANAGER.current_pid)
               before == Procs[ci]
               after == PROCESS_MANAGER'.processes[ci]
           IN IF before.used_time + 1 < before.time_slice
              THEN /\ after.used_time = before.used_time + 1
                   /\ after.state = "Running"
                   /\ PROCESS_MANAGER'.current_pid = PROCESS_MANAGER.current_pid
              ELSE /\ after.used_time = 0
                   /\ \/ after.state # "Running"
                      \/ PROCESS_MANAGER'.current_pid # PROCESS_MANAGER.current_pid ]_vars

\* C4: terminate_process(p) for a pid in the table returns true, leaves the
\* first entry with pid p Terminated, gives ppid 1 to every entry whose ppid
\* was p, and changes no other state, no other ppid, no other field, nor
\* current_pid / next_pid; for a pid not in the table it returns false and
\* changes nothing.
C4_TerminateEffect ==
    [][ last'.op = "terminate_process"
        => LET p == last'.args[1]
               i == position(Procs, p)
               after == PROCESS_MANAGER'.processes
           IN IF i # 0
              THEN /\ last'.ret = Bool(TRUE)
                   /\ Len(after) = Len(Procs)
                   /\ after[i].state = "Terminated"
                   /\ \A j \in 1..Len(Procs) :
                        /\ j # i => after[j].state = Procs[j].state
                        /\ Procs[j].ppid = p => after[j].ppid = 1
                        /\ Procs[j].ppid # p => after[j].ppid = Procs[j].ppid
                        /\ [after[j] EXCEPT !.state = "Ready", !.ppid = 0]
                             = [Procs[j] EXCEPT !.state = "Ready", !.ppid = 0]
                   /\ PROCESS_MANAGER'.current_pid = PROCESS_MANAGER.current_pid
                   /\ PROCESS_MANAGER'.next_pid = PROCESS_MANAGER.next_pid
                   /\ GLOBAL_SIGNAL_HANDLER' = GLOBAL_SIGNAL_HANDLER
              ELSE /\ last'.ret = Bool(FALSE)
                   /\ PROCESS_MANAGER' = PROCESS_MANAGER
                   /\ GLOBAL_SIGNAL_HANDLER' = GLOBAL_SIGNAL_HANDLER ]_vars

\* C4 witness: terminate_process(2) returned true on a two-entry table whose
\* other entry is a Running child now parented to pid 1.
C4_Witness ==
    /\ last.op = "terminate_process"
    /\ last.args = <<2>>
    /\ last.ret = Bool(TRUE)
    /\ Len(Procs) = 2
    /\ Procs[2].pid = 2 /\ Procs[2].state = "Terminated"
    /\ Procs[1].ppid = 1 /\ Procs[1].state = "Running"
    /\ PROCESS_MANAGER.current_pid = 1

\* C5: terminate_process(1) leaves the state of pid 1 as it was before the call.
C5_InitUnaffected ==
    [][ (last'.op = "terminate_process" /\ last'.args = <<1>> /\ position(Procs, 1) # 0)
        => PROCESS_MANAGER'.processes[position(Procs, 1)].state
             = Procs[position(Procs, 1)].state ]_vars

\* C6: the pids of the table are pairwise distinct and every entry's pid is
\* strictly greater than the pid of every entry created before it.
C6_PidsUniqueIncreasing ==
    \A i, j \in 1..Len(Procs) : i < j => Procs[i].pid < Procs[j].pid

----------------------------------------------------------------------------
(* Claims C7-C10: uncatchable signals, under SpecSig *)

Mask == GLOBAL_SIGNAL_HANDLER.signal_mask
Pending == GLOBAL_SIGNAL_HANDLER.pending_signals
Handlers == GLOBAL_SIGNAL_HANDLER.signal_handlers

\* C7: send_signal(p, 9, sender) for a pid p in the table returns Ok, leaves
\* process p Terminated and leaves the pending queue, the mask and the handler
\* table as they were, whatever they hold.
C7_KillAlwaysTerminates ==
    [][ (last'.op = "send_signal" /\ last'.args[2] = SIGKILL
         /\ position(Procs, last'.args[1]) # 0)
        => /\ last'.ret = Ok
           /\ PROCESS_MANAGER'.processes[position(Procs, last'.args[1])].state = "Terminated"
           /\ GLOBAL_SIGNAL_HANDLER' = GLOBAL_SIGNAL_HANDLER ]_vars

\* C7 witness: SIGKILL was sent to pid 1 and terminated it while a signal was
\* blocked, one was pending and SIGTERM had a custom handler.
C7_Witness ==
    /\ last.op = "send_signal"
    /\ last.args[1] = 1 /\ last.args[2] = SIGKILL
    /\ last.ret = Ok
    /\ Len(Procs) = 1 /\ Procs[1].state = "Terminated"
    /\ Mask # 0
    /\ Len(Pending) = 1
    /\ Handlers[SIGTERM - 1].kind = "Custom"

\* C8: the mask bits of SIGKILL and SIGSTOP are clear and their handler-table
\* entries are Default or the action of their default disposition (Terminate
\* for 9, Stop for 19).
C8_UncatchableInvariant ==
    /\ ~bit_test(Mask, signal_bit(SIGKILL))
    /\ ~bit_test(Mask, signal_bit(SIGSTOP))
    /\ Handlers[SIGKILL - 1] \in {Default, Terminate}
    /\ Handlers[SIGSTOP - 1] \in {Default, Stop}

\* C8 witness: a Custom handler was just requested for SIGKILL after
\* init_signals filled the table, with SIGTERM and SIGCONT both blocked.
C8_Witness ==
    /\ last.op = "set_signal_handler"
    /\ last.args = <<SIGKILL>>
    /\ last.act.kind = "Custom"
    /\ Handlers[SIGKILL - 1] = Terminate
    /\ bit_test(Mask, signal_bit(SIGTERM))
    /\ bit_test(Mask, signal_bit(SIGCONT))

\* C9: set_signal_handler on 9 or 19 returns an error and leaves handler
\* table, mask and queue unchanged; on any other signal it returns Ok and
\* overwrites exactly that signal's entry.
C9_SetHandlerContract ==
    [][ last'.op = "set_signal_handler"
        => LET signal == last'.args[1]
           IN IF signal \in {SIGKILL, SIGSTOP}
              THEN /\ last'.ret.tag = "Err"
                   /\ GLOBAL_SIGNAL_HANDLER' = GLOBAL_SIGNAL_HANDLER
              ELSE /\ last'.ret = Ok
                   /\ GLOBAL_SIGNAL_HANDLER'.signal_handlers[signal - 1] = last'.act
                   /\ \A i \in 0..31 : i # signal - 1 =>
                        GLOBAL_SIGNAL_HANDLER'.signal_handlers[i] = Handlers[i]
                   /\ GLOBAL_SIGNAL_HANDLER'.signal_mask = Mask
                   /\ GLOBAL_SIGNAL_HANDLER'.pending_signals = Pending
                   /\ PROCESS_MANAGER' = PROCESS_MANAGER ]_vars

\* C9 witness: SIGTERM's entry was just overwritten with Core while SIGTERM
\* was blocked and pending.
C9_Witness ==
    /\ last.op = "set_signal_handler"
    /\ last.args = <<SIGTERM>>
    /\ last.act = Core
    /\ last.ret = Ok
    /\ Handlers[SIGTERM - 1] = Core
    /\ Len(Pending) = 1 /\ Pending[1].signal = SIGTERM

\* C10: block_signal on 9 or 19 returns an error and leaves the mask unchanged.
C10_BlockUncatchableRejected ==
    [][ (last'.op = "block_signal" /\ last'.args[1] \in {SIGKILL, SIGSTOP})
        => /\ last'.ret.tag = "Err"
           /\ GLOBAL_SIGNAL_HANDLER'.signal_mask = Mask ]_vars


----------------------------------------------------------------------------
(* SpecCap: the pending queue up to its capacity. One signal is blocked at *)
(* a time and the n-th send into the queue carries sender pid n, so that   *)
(* the queue's entries are told apart and its growth stays linear          *)

CapSignals == {SIGTERM, SIGCONT, SIGCHLD}
CapTargets == {1}

CapCreate == CreateProcess(MaxSigTable, {0})
CapBlock ==
    /\ GLOBAL_SIGNAL_HANDLER.signal_mask = 0
    /\ BlockSignal(CapSignals)
CapSend ==
    SendSignal(CapTargets, CapSignals,
               {Len(GLOBAL_SIGNAL_HANDLER.pending_signals) + 1}, MAX_PENDING_SIGNALS + 1)
CapUnblock == UnblockSignal(CapSignals)

NextCap ==
    \/ CapCreate
    \/ CapBlock
    \/ CapSend
    \/ CapUnblock

SpecCap == Init /\ [][NextCap]_vars

----------------------------------------------------------------------------
(* Claims C11, C13: the pending queue, under SpecCap *)

\* the (signal, sender) pairs of a sequence of deliver_signal calls
Occurrences(calls) ==
    [i \in 1..Len(calls) |->
        [signal |-> calls[i].signal, sender_pid |-> calls[i].sender_pid]]

\* k occurrences of signal A in the order they were sent under SpecCap
SentInOrder(A, k) == [i \in 1..k |-> [signal |-> A, sender_pid |-> i]]

\* C11: when a catchable signal A is blocked and the queue holds the k sends of A
\* made meanwhile (1 <= k <= 32) and nothing else, unblock_signal(A) delivers these
\* k occurrences in the order they were sent, and pending_signals_count() is 0
\* afterwards.
C11_UnblockDeliversFifo ==
    [][(/\ last'.op = "unblock_signal"
        /\ from_i32(last'.args[1]).tag = "Some"
        /\ ~is_uncatchable(last'.args[1])
        /\ bit_test(Mask, signal_bit(last'.args[1]))
        /\ Len(Pending) >= 1
        /\ \A i \in 1..Len(Pending) : Pending[i].signal = last'.args[1])
       => /\ Pending = SentInOrder(last'.args[1], Len(Pending))
          /\ Occurrences(last'.delivered) = SentInOrder(last'.args[1], Len(Pending))
          /\ pending_signals_count(GLOBAL_SIGNAL_HANDLER') = 0]_vars

C11_Witness ==
    /\ last.op = "unblock_signal"
    /\ Occurrences(last.delivered) = SentInOrder(SIGTERM, MAX_PENDING_SIGNALS)
    /\ pending_signals_count(GLOBAL_SIGNAL_HANDLER) = 0

\* C13: when the queue holds MAX_PENDING_SIGNALS entries, send_signal of a blocked
\* catchable signal returns an error and leaves the queue, the mask, the handler
\* table and the process table as they were.
C13_FullQueueRejects ==
    [][(/\ last'.op = "send_signal"
        /\ Len(Pending) = MAX_PENDING_SIGNALS
        /\ from_i32(last'.args[2]).tag = "Some"
        /\ ~is_uncatchable(last'.args[2])
        /\ bit_test(Mask, signal_bit(last'.args[2])))
       => /\ last'.ret.tag = "Err"
          /\ GLOBAL_SIGNAL_HANDLER' = GLOBAL_SIGNAL_HANDLER
          /\ PROCESS_MANAGER' = PROCESS_MANAGER]_vars

C13_Witness ==
    /\ last.op = "send_signal"
    /\ last.ret = Err("Too many pending signals")
    /\ Len(Pending) = MAX_PENDING_SIGNALS
    /\ bit_test(Mask, signal_bit(last.args[2]))
    /\ Len(Procs) = 1


----------------------------------------------------------------------------
(* SpecQueue: a pending queue that mixes two blockable signals from two    *)
(* senders                                                                 *)

QueueSignals == {SIGTERM, SIGCONT}
QueueSenders == {1, 2}
UnblockInputs == QueueSignals \cup {0}

QueueCreate == CreateProcess(MaxSigTable, {0})
QueueBlock == BlockSignal(QueueSignals)
QueueSend == SendSignal({1}, QueueSignals, QueueSenders, MaxQueue)
QueueUnblock == UnblockSignal(UnblockInputs)

NextQueue ==
    \/ QueueCreate
    \/ QueueBlock
    \/ QueueSend
    \/ QueueUnblock

SpecQueue == Init /\ [][NextQueue]_vars

----------------------------------------------------------------------------
(* Claim C12: what unblock_signal leaves in the queue, under SpecQueue *)

\* C12: after unblock_signal(s) the queue is the queue before the call without the
\* entries whose signal is no longer blocked, the remaining entries in their old
\* order; the removed entries are the ones delivered, each once; and no entry with
\* signal s remains.
C12_UnblockFiltersQueue ==
    [][last'.op = "unblock_signal"
       => LET StillBlocked(e) == bit_test(Mask', signal_bit(e.signal))
              Unblocked(e) == ~bit_test(Mask', signal_bit(e.signal))
          IN /\ Pending' = SelectSeq(Pending, StillBlocked)
             /\ Occurrences(last'.delivered) = SelectSeq(Pending, Unblocked)
             /\ \A i \in 1..Len(Pending') : Pending'[i].signal # last'.args[1]]_vars

C12_Witness ==
    /\ last.op = "unblock_signal"
    /\ last.ret = Ok
    /\ Len(last.delivered) >= 1
    /\ Len(Pending) >= 2
    /\ Pending[1].sender_pid # Pending[2].sender_pid


----------------------------------------------------------------------------
(* SpecDisp: default dispositions. Every signal number is sent, nothing is *)
(* blocked, and the handler table is the booted one, the one init_signals  *)
(* builds, or one of these with handlers set back to Default               *)

AllSignals == 1..31
DispHandlerSignals == {SIGTERM, SIGCHLD, SIGCONT, SIGTSTP}
DispTargets == {1, 2}

DispCreate == CreateProcess(MaxSigTable, {0})
DispInit == InitSignals
DispSetDefault == SetSignalHandler(DispHandlerSignals, {Default})
DispSend == SendSignal(DispTargets, AllSignals, {0}, MaxPending)

NextDisp ==
    \/ DispCreate
    \/ DispInit
    \/ DispSetDefault
    \/ DispSend

SpecDisp == Init /\ [][NextDisp]_vars

----------------------------------------------------------------------------
(* Claim C14: default dispositions, under SpecDisp *)

\* C14: with a handler table that is unmodified or set back to Default, and nothing
\* blocked, send_signal(pid, n, _) to an existing pid leaves the process table
\* unchanged for n in {17, 23, 28}, sets the target to Sleeping for n in
\* {19, 20, 21, 22}, to Ready for n = 18, and to Terminated for every other n in
\* 1..31.
C14_DefaultDispositions ==
    [][(/\ last'.op = "send_signal"
        /\ last'.args[2] \in 1..31
        /\ position(Procs, last'.args[1]) # 0)
       => LET n == last'.args[2]
              i == position(Procs, last'.args[1])
          IN /\ last'.ret = Ok
             /\ n \in {17, 23, 28} => PROCESS_MANAGER' = PROCESS_MANAGER
             /\ n \in {19, 20, 21, 22} =>
                    PROCESS_MANAGER' = [PROCESS_MANAGER EXCEPT
                                           !.processes[i].state = "Sleeping"]
             /\ n = 18 => PROCESS_MANAGER' = [PROCESS_MANAGER EXCEPT
                                                 !.processes[i].state = "Ready"]
             /\ n \notin {17, 23, 28, 19, 20, 21, 22, 18} =>
                    Procs'[i] = [Procs[i] EXCEPT !.state = "Terminated"]]_vars

\* a stop signal sent after init_signals and an explicit reset to Default
C14_Witness ==
    /\ last.op = "send_signal"
    /\ last.args[2] = SIGTSTP
    /\ Len(Procs) >= 1
    /\ Procs[1].pid = last.args[1]
    /\ Procs[1].state = "Sleeping"
    /\ Handlers[SIGTSTP - 1] = Default
    /\ Handlers[SIGTERM - 1] = Terminate


----------------------------------------------------------------------------
(* SpecIrq: init_interrupts step by step, and interrupts taken once IRQs   *)
(* are unmasked. An acknowledge value is an interrupt number in bits 0..9  *)
(* and a CPU id in bits 10..12                                             *)

IrqNumbers == {0, 27, IRQ_TIMER, IRQ_GPIO, IRQ_UART0, 1019, 1020, 1021, 1022, 1023}
CpuIds == {0, 1, 7}
IarInputs == {1024 * c + n : c \in CpuIds, n \in IrqNumbers}

IrqInstall == InitInstall
IrqController == InitController
IrqVectors == InitVectors
IrqUnmask == InitUnmask
IrqTaken == Irq(IarInputs)

NextIrq ==
    \/ IrqInstall
    \/ IrqController
    \/ IrqVectors
    \/ IrqUnmask
    \/ IrqTaken

SpecIrq == Init /\ [][NextIrq]_vars

----------------------------------------------------------------------------
(* Claims C15-C17: the interrupt path, under SpecIrq *)

\* positions in mmio of the writes to the end-of-interrupt register
EoiWrites(accesses) ==
    {k \in 1..Len(accesses) : accesses[k].op = "write" /\ accesses[k].reg = GICC_EOIR}

\* C15: handling an acknowledge value whose interrupt number is below 1020 makes
\* exactly one end-of-interrupt write; it carries the acknowledge value, comes
\* after the acknowledge read and the reaction to the IRQ, and is the last access
\* before the return. This holds for the timer, UART, GPIO and unknown IRQs.
C15_OneEoiAfterReaction ==
    [][(/\ last'.op = "rust_irq_handler"
        /\ INTERRUPT_CONTROLLER.tag = "Some"
        /\ last'.args[1] % 1024 < 1020)
       => /\ Cardinality(EoiWrites(mmio')) = 1
          /\ Len(mmio') = 3
          /\ mmio'[1] = RegRead(GICC_IAR, last'.args[1])
          /\ mmio'[2].op = "uart"
          /\ mmio'[3] = RegWrite(GICC_EOIR, last'.args[1])
          /\ mmio' = handle_interrupt(last'.args[1]).accesses
          /\ handle_interrupt(last'.args[1]).ret = Some(last'.args[1] % 1024)]_vars

\* an unknown IRQ acknowledged with a CPU id in the upper bits
C15_Witness ==
    /\ last.op = "rust_irq_handler"
    /\ last.args = <<1024 + 27>>
    /\ last.ret = Unit
    /\ handle_interrupt(last.args[1]).ret = Some(27)
    /\ mmio[3] = RegWrite(GICC_EOIR, 1024 + 27)

\* C16 as stated: an acknowledge value of 1020 or more is answered with no
\* end-of-interrupt write and the return value None.
C16_SpuriousByValue ==
    [][(/\ last'.op = "rust_irq_handler"
        /\ last'.args[1] >= 1020)
       => /\ EoiWrites(mmio') = {}
          /\ handle_interrupt(last'.args[1]).ret = None]_vars

\* C16, amended: an acknowledge value whose interrupt number (its low 10 bits) is
\* 1020 or more is answered with no end-of-interrupt write and the return value None.
C16_SpuriousByNumber ==
    [][(/\ last'.op = "rust_irq_handler"
        /\ INTERRUPT_CONTROLLER.tag = "Some"
        /\ last'.args[1] % 1024 >= 1020)
       => /\ EoiWrites(mmio') = {}
          /\ mmio' = handle_interrupt(last'.args[1]).accesses
          /\ handle_interrupt(last'.args[1]).ret = None]_vars

C16_Witness ==
    /\ last.op = "rust_irq_handler"
    /\ INTERRUPT_CONTROLLER.tag = "Some"
    /\ last.args = <<1024 + 1023>>
    /\ last.ret = Unit
    /\ handle_interrupt(last.args[1]).ret = None
    /\ mmio = <<RegRead(GICC_IAR, 1024 + 1023)>>

\* the controller is set up as init() leaves it
GicInitialised(h) ==
    /\ h.gicd_ctlr = 1
    /\ h.gicc_ctlr = 1
    /\ {IRQ_TIMER, IRQ_UART0, IRQ_GPIO} \subseteq h.enabled

\* C17: IRQs are unmasked only once the vector base is loaded, and the vector base
\* is loaded only once the controller instance is installed and its init() has
\* succeeded; when init() fails, init_interrupts returns without loading the
\* vector base or unmasking.
C17_InitOrder ==
    [][/\ (last'.op = "init_interrupts:unmask" \/ hw'.irq_masked # hw.irq_masked) =>
              /\ init_pc = "vectors"
              /\ hw.vbar_el1 = START_VECTORS
              /\ ~hw'.irq_masked
       /\ (last'.op = "init_interrupts:vbar" \/ hw'.vbar_el1 # hw.vbar_el1) =>
              /\ init_pc = "initialized"
              /\ INTERRUPT_CONTROLLER.tag = "Some"
              /\ GicInitialised(hw)
              /\ hw'.vbar_el1 = START_VECTORS
       /\ (last'.op = "init_interrupts:init" /\ last'.ret.tag = "Err") =>
              /\ init_pc' = "idle"
              /\ hw'.vbar_el1 = hw.vbar_el1
              /\ hw'.irq_masked = hw.irq_masked]_vars

C17_Witness ==
    /\ last.op = "init_interrupts:unmask"
    /\ ~hw.irq_masked
    /\ hw.vbar_el1 = START_VECTORS
    /\ INTERRUPT_CONTROLLER = Some(InterruptController_new)


----------------------------------------------------------------------------
(* SpecSys: the syscall dispatcher over a small process table, with the    *)
(* mapped numbers and some unmapped ones                                   *)

MappedNumbers == {93, 57, 56, 63, 64, 172, 173, 129, 49, 79, 83, 87, 21, 106}
UnmappedNumbers == {0, 58, 400}
Args0 == {0, 1}
Args1 == {SIGKILL, SIGCHLD}
Args2 == {0, 5}

SysCreate == ~Halted /\ CreateProcess(MaxSigTable, {0})
SysSchedule == ~Halted /\ Schedule(MaxSysTicks)
SysInitSyscalls == ~Halted /\ InitSyscalls
SysBlock == ~Halted /\ BlockSignal({SIGCHLD})
SysCall ==
    /\ ~Halted
    /\ HandleSyscall(MappedNumbers \cup UnmappedNumbers, Args0, Args1, Args2,
                     MaxSigTable, MaxFds)

NextSys ==
    \/ SysCreate
    \/ SysSchedule
    \/ SysInitSyscalls
    \/ SysBlock
    \/ SysCall

SpecSys == Init /\ [][NextSys]_vars

----------------------------------------------------------------------------
(* Claims C18, C19: the dispatcher, under SpecSys *)

\* C18: handle_syscall with a number outside the mapped table returns -38 whatever
\* the arguments, and leaves the process table, the current pid, the signal state
\* and the descriptor table as they were.
C18_UnmappedIsEnosys ==
    [][(/\ last'.op = "handle_syscall"
        /\ last'.args[1] \notin
               {93, 57, 56, 63, 64, 172, 173, 129, 49, 79, 83, 87, 21, 106})
       => /\ last'.ret = I64(-38)
          /\ PROCESS_MANAGER' = PROCESS_MANAGER
          /\ GLOBAL_SIGNAL_HANDLER' = GLOBAL_SIGNAL_HANDLER
          /\ GLOBAL_FD_TABLE' = GLOBAL_FD_TABLE]_vars

C18_Witness ==
    /\ last.op = "handle_syscall"
    /\ last.args = <<58, 1, SIGKILL, 5>>
    /\ last.ret = I64(-38)
    /\ Len(Procs) >= 1
    /\ PROCESS_MANAGER.current_pid = 1
    /\ Len(GLOBAL_FD_TABLE.fds) >= 1

\* C19: the kill syscall (number 129) with arguments (pid, sig) changes the process
\* table and the signal state exactly as send_signal(pid, sig, current_pid) does.
C19_KillIsSendSignal ==
    [][(/\ last'.op = "handle_syscall"
        /\ last'.args[1] = 129)
       => LET r == send_signal(GLOBAL_SIGNAL_HANDLER, PROCESS_MANAGER,
                               last'.args[2], last'.args[3],
                               PROCESS_MANAGER.current_pid)
          IN /\ PROCESS_MANAGER' = r.pm
             /\ GLOBAL_SIGNAL_HANDLER' = r.sh]_vars


----------------------------------------------------------------------------
(* SpecFork: fork up to a full process table. Processes are created and    *)
(* scheduled while the table is small; from then on it grows by fork alone *)

ForkEntryPoints == {4096, 8192}

ForkCreate == CreateProcessAt(ForkEntryPoints, MaxSigTable, {0})
ForkSchedule ==
    /\ Len(PROCESS_MANAGER.processes) <= MaxSigTable
    /\ Schedule(MaxSysTicks)
ForkCall == HandleSyscall({57}, {0}, {0}, {0}, MAX_PROCESSES + 1, MaxFds)

NextFork ==
    \/ ForkCreate
    \/ ForkSchedule
    \/ ForkCall

SpecFork == Init /\ [][NextFork]_vars

----------------------------------------------------------------------------
(* Claim C20: fork, under SpecFork *)

\* the fork step appends one Ready process parented to the caller, with the
\* caller's entry point, and returns its pid
ForkAppends ==
    LET caller == get_process(PROCESS_MANAGER, PROCESS_MANAGER.current_pid)
        child == Procs'[Len(Procs')]
    IN /\ caller.tag = "Some"
       /\ Len(Procs') = Len(Procs) + 1
       /\ SubSeq(Procs', 1, Len(Procs)) = Procs
       /\ child.state = "Ready"
       /\ child.ppid = PROCESS_MANAGER.current_pid
       /\ child.entry_point = caller.val.entry_point
       /\ child.pid = PROCESS_MANAGER.next_pid
       /\ last'.ret = I64(child.pid)

\* the fork step returns code and leaves the process table as it was
ForkFails(code) ==
    /\ last'.ret = I64(code)
    /\ PROCESS_MANAGER' = PROCESS_MANAGER

\* C20 as stated: fork returns a new pid or -12; with a table that is not full it
\* appends exactly one Ready process whose ppid is the caller's pid and whose entry
\* point is the caller's; with a full table it returns -12 and changes nothing.
C20_ForkContract ==
    [][(/\ last'.op = "handle_syscall"
        /\ last'.args[1] = 57)
       => IF Len(Procs) < MAX_PROCESSES THEN ForkAppends ELSE ForkFails(-12)]_vars

\* C20, amended: when the current pid has no entry in the process table, fork
\* returns -1 and changes nothing; otherwise it behaves as stated.
C20_ForkContractWithCaller ==
    [][(/\ last'.op = "handle_syscall"
        /\ last'.args[1] = 57)
       => IF get_process(PROCESS_MANAGER, PROCESS_MANAGER.current_pid).tag = "None"
          THEN ForkFails(-1)
          ELSE IF Len(Procs) < MAX_PROCESSES THEN ForkAppends ELSE ForkFails(-12)]_vars

\* the table was filled by forks of pid 1 and the next fork is refused
C20_Witness ==
    /\ last.op = "handle_syscall"
    /\ last.args[1] = 57
    /\ last.ret = I64(-12)
    /\ Len(Procs) = MAX_PROCESSES
    /\ Procs[MAX_PROCESSES].ppid = PROCESS_MANAGER.current_pid
    /\ Procs[MAX_PROCESSES].entry_point = 8192
    /\ Procs[MAX_PROCESSES].state = "Ready"


----------------------------------------------------------------------------
(* SpecExit: the exit syscall called by a scheduled process that may have  *)
(* children                                                                *)

ExitParents == {0, 2}
ExitStatus == {0, 1}

ExitCreate == ~Halted /\ CreateProcess(MaxExitTable, ExitParents)
ExitSchedule == ~Halted /\ Schedule(MaxExitTicks)
ExitCall == ~Halted /\ HandleSyscall({93}, ExitStatus, {0}, {0}, MaxExitTable, MaxFds)

NextExit ==
    \/ ExitCreate
    \/ ExitSchedule
    \/ ExitCall

SpecExit == Init /\ [][NextExit]_vars

----------------------------------------------------------------------------
(* Claim C21: exit, under SpecExit *)

\* C21: when the current process calls exit, it becomes Terminated, every process
\* whose ppid was its pid gets ppid 1, and no value is returned: the call stays in
\* the wait loop, so no operation follows it.
C21_ExitTerminatesAndHalts ==
    [][/\ ~Halted
       /\ (/\ last'.op = "handle_syscall"
           /\ last'.args[1] = 93
           /\ position(Procs, PROCESS_MANAGER.current_pid) # 0)
          => /\ Procs'[position(Procs, PROCESS_MANAGER.current_pid)].state = "Terminated"
             /\ \A j \in 1..Len(Procs) :
                    Procs[j].ppid = PROCESS_MANAGER.current_pid => Procs'[j].ppid = 1
             /\ last'.ret = Diverges]_vars

\* process 2 exited while process 3 was its child
C21_Witness ==
    /\ Halted
    /\ last.args[1] = 93
    /\ PROCESS_MANAGER.current_pid = 2
    /\ Len(Procs) = 3
    /\ Procs[2].state = "Terminated"
    /\ Procs[3].ppid = 1

(* SpecTable: the table filled to capacity by create_process, which is     *)
(* also called on the full table; schedule() and terminate_process act on  *)
(* the last slots                                                          *)
TablePids == {2, 3}
TableCreate ==
    CreateProcessAt(EntryPoints, MAX_PROCESSES + 1, {Len(PROCESS_MANAGER.processes) % 3})
TableSchedule ==
    /\ Len(PROCESS_MANAGER.processes) >= MAX_PROCESSES - 1
    /\ Schedule(MaxFullTicks)
TableTerminate ==
    /\ Len(PROCESS_MANAGER.processes) >= MAX_PROCESSES - 1
    /\ TerminateProcess(TablePids)
NextTable == \/ TableCreate \/ TableSchedule \/ TableTerminate
SpecTable == Init /\ [][NextTable]_vars

\* C22: create_process on a full table (64 entries) returns None and leaves the
\* table, the next pid and current_pid unchanged; on a non-full table it appends
\* exactly one process that is Ready with used_time 0, the default time slice and
\* the given parent pid, and returns that process's pid.
C22_CreateContract ==
    [][last'.op = "create_process"
       => IF Len(Procs) = MAX_PROCESSES
          THEN /\ last'.ret = None
               /\ Procs' = Procs
               /\ PROCESS_MANAGER'.next_pid = PROCESS_MANAGER.next_pid
               /\ PROCESS_MANAGER'.current_pid = PROCESS_MANAGER.current_pid
          ELSE /\ Len(Procs') = Len(Procs) + 1
               /\ SubSeq(Procs', 1, Len(Procs)) = Procs
               /\ Procs'[Len(Procs')].state = "Ready"
               /\ Procs'[Len(Procs')].used_time = 0
               /\ Procs'[Len(Procs')].time_slice = DEFAULT_TIME_SLICE
               /\ Procs'[Len(Procs')].ppid = last'.args[2]
               /\ last'.ret = Some(Procs'[Len(Procs')].pid)]_vars

\* create_process was rejected on a table of 64 entries whose last entry was
\* created with parent pid 0
C22_Witness ==
    /\ last.op = "create_process"
    /\ last.ret = None
    /\ Len(Procs) = MAX_PROCESSES
    /\ Procs[MAX_PROCESSES].ppid = 0
    /\ Procs[MAX_PROCESSES].state = "Ready"
    /\ Procs[2].ppid = 1

(* SpecTableFair: SpecTable in which create_process and terminate_process  *)
(* keep being called while they can change something                       *)
SpecTableFair ==
    /\ Init
    /\ [][NextTable]_vars
    /\ WF_vars(TableCreate)
    /\ WF_vars(TableTerminate)

CreateRejected == last.op = "create_process" /\ last.ret = None
CreateSucceeded == last.op = "create_process" /\ last.ret.tag = "Some"

\* C28: table exhaustion is recoverable: after create_process was rejected on a
\* full table, operations such as terminating processes lead to a state in which
\* create_process succeeds again.
C28_ExhaustionRecoverable == CreateRejected ~> CreateSucceeded

\* C23: a queued signal, when unblock_signal delivers it, is applied to the process
\* it was sent to: after block SIGTERM, send_signal(p, SIGTERM, s) and unblock
\* SIGTERM, process p is Terminated.
C23_QueuedSignalReachesTarget ==
    [][(/\ last.op = "send_signal"
        /\ last.args[2] = SIGTERM
        /\ last.ret = Ok
        /\ last.delivered = <<>>
        /\ bit_test(Mask, signal_bit(SIGTERM))
        /\ position(Procs, last.args[1]) # 0
        /\ last'.op = "unblock_signal"
        /\ last'.args[1] = SIGTERM)
       => Procs'[position(Procs, last.args[1])].state = "Terminated"]_vars

\* C29: send_signal of a catchable signal whose mask bit is set, while the queue
\* is not full, returns success, appends exactly one (signal, sender_pid) entry at
\* the tail of the queue and leaves the process table, the mask and the handler
\* table unchanged.
C29_BlockedSendQueues ==
    [][(/\ last'.op = "send_signal"
        /\ from_i32(last'.args[2]).tag = "Some"
        /\ ~is_uncatchable(last'.args[2])
        /\ bit_test(Mask, signal_bit(last'.args[2]))
        /\ Len(Pending) < MAX_PENDING_SIGNALS)
       => /\ last'.ret = Ok
          /\ Pending' = Append(Pending, [signal |-> last'.args[2],
                                         sender_pid |-> last'.args[3]])
          /\ PROCESS_MANAGER' = PROCESS_MANAGER
          /\ Mask' = Mask
          /\ Handlers' = Handlers]_vars

\* the send that filled the last free slot of the queue, with a process in the table
C29_Witness ==
    /\ last.op = "send_signal"
    /\ last.ret = Ok
    /\ last.delivered = <<>>
    /\ Len(Pending) = MAX_PENDING_SIGNALS
    /\ Pending[MAX_PENDING_SIGNALS] = [signal |-> last.args[2], sender_pid |-> last.args[3]]
    /\ Pending[1].sender_pid = 1
    /\ Len(Procs) = 1

-----------------------------------------------------------------------------
(* SpecPend: the pending queue under every operation that may run while    *)
(* signals are queued: sends, blocks, handler changes, schedule(),         *)
(* terminate_process and unblocks. The n-th queued send carries sender n.  *)

PendSignals == {SIGTERM, SIGCONT}
PendActions == {Ignore, Terminate}

PendCreate == CreateProcess(MaxSigTable, {0})
PendBlock == BlockSignal(PendSignals \cup {SIGINT})
PendSend ==
    SendSignal({1}, PendSignals, {Len(GLOBAL_SIGNAL_HANDLER.pending_signals) + 1},
               MaxPendQueue)
PendSetHandler == SetSignalHandler({SIGTERM}, PendActions)
PendSchedule == Schedule(MaxPendTicks)
PendTerminate == TerminateProcess({1})
PendUnblock == UnblockSignal(PendSignals)
PendKeyboard == HandleKeyboardInterrupt(MaxPendQueue)

NextPend ==
    \/ PendCreate
    \/ PendBlock
    \/ PendSend
    \/ PendSetHandler
    \/ PendSchedule
    \/ PendTerminate
    \/ PendUnblock
    \/ PendKeyboard

SpecPend == Init /\ [][NextPend]_vars

\* C30: a pending entry is removed only by unblock_signal, and only when its signal
\* is no longer blocked: send_signal, block_signal, set_signal_handler, schedule()
\* and terminate_process keep every entry in its place, unblock_signal keeps the
\* entries whose signal is still blocked in their order, and an unblock of a signal
\* queued for a terminated process reports no error.
C30_OnlyUnblockRemoves ==
    [][/\ last'.op \in {"send_signal", "block_signal", "set_signal_handler",
                        "schedule", "terminate_process", "handle_keyboard_interrupt"}
          => /\ Len(Pending') >= Len(Pending)
             /\ SubSeq(Pending', 1, Len(Pending)) = Pending
       /\ last'.op = "unblock_signal"
          => LET StillBlocked(e) == bit_test(Mask', signal_bit(e.signal))
             IN /\ SelectSeq(Pending, StillBlocked) = Pending'
                /\ (/\ \E j \in 1..Len(Procs) : Procs[j].state = "Terminated"
                    /\ \E i \in 1..Len(Pending) : Pending[i].signal = last'.args[1])
                   => last'.ret = Ok]_vars

\* SIGTERM was queued for process 1, process 1 was terminated, and the unblock
\* that delivered the entry returned Ok while a blocked SIGCONT entry stayed queued
C30_Witness ==
    /\ last.op = "unblock_signal"
    /\ last.args[1] = SIGTERM
    /\ last.ret = Ok
    /\ Len(last.delivered) = 1
    /\ Len(Procs) = 1
    /\ Procs[1].state = "Terminated"
    /\ Len(Pending) = 1
    /\ Pending[1].signal = SIGCONT

-----------------------------------------------------------------------------
(* Claims C25 - C27: process states under the scheduler and signals *)

\* C25: Terminated is absorbing: no schedule(), terminate_process or send_signal
\* step (SIGCONT and SIGSTOP included) changes the state of a Terminated process,
\* and schedule() never returns the pid of a process that is Terminated.
C25_TerminatedAbsorbing ==
    [][\A j \in 1..Len(Procs) :
          Procs[j].state = "Terminated"
          => /\ Procs'[j].state = "Terminated"
             /\ last'.op = "schedule" => last'.ret # Some(Procs[j].pid)]_vars

Runnable(p) == p.state \in {"Ready", "Running"}
Parked(p) == p.state \in {"Sleeping", "Terminated"}

\* C26: schedule() returns none only when the table is empty or every process is
\* Terminated or Sleeping; whenever at least one process is Ready or Running it
\* returns a pid; on an empty table it returns none and leaves current_pid unchanged.
C26_NoneOnlyWhenNothingRunnable ==
    [][last'.op = "schedule"
       => /\ last'.ret = None => \A j \in 1..Len(Procs) : Parked(Procs[j])
          /\ (\E j \in 1..Len(Procs) : Runnable(Procs[j])) => last'.ret.tag = "Some"
          /\ Procs = <<>> => /\ last'.ret = None
                             /\ PROCESS_MANAGER'.current_pid = PROCESS_MANAGER.current_pid]_vars

\* C27: schedule() never returns the pid of a process that is Sleeping or Terminated
\* when it is called and never changes the state of such a process; whenever it
\* returns p, process p is Running and current_pid() is p.
C27_ParkedSkippedReturnedRuns ==
    [][last'.op = "schedule"
       => /\ \A j \in 1..Len(Procs) :
                Parked(Procs[j]) => /\ last'.ret # Some(Procs[j].pid)
                                    /\ Procs'[j].state = Procs[j].state
          /\ last'.ret.tag = "Some"
             => /\ position(Procs', last'.ret.val) # 0
                /\ Procs'[position(Procs', last'.ret.val)].state = "Running"
                /\ PROCESS_MANAGER'.current_pid = last'.ret.val]_vars

-----------------------------------------------------------------------------
(* SpecRun: a table is set up by create_process, terminate_process, stop   *)
(* signals and set_process_state, and from the first schedule() on nothing *)
(* but schedule() is called.                                               *)

RunPids == 1..MaxRunTable

RunCreate ==
    /\ PROCESS_MANAGER.scheduler_tick = 0
    /\ CreateProcess(MaxRunTable, {0})
RunTerminate ==
    /\ PROCESS_MANAGER.scheduler_tick = 0
    /\ TerminateProcess({1, 2})
RunStop ==
    /\ PROCESS_MANAGER.scheduler_tick = 0
    /\ SendSignal({2, 3}, {SIGSTOP}, {0}, MaxPending)
RunSetState ==
    /\ PROCESS_MANAGER.scheduler_tick = 0
    /\ SetProcessState({1, 2}, ProcessState)
RunSchedule == Schedule(MaxRunTicks)

NextRun == \/ RunCreate \/ RunTerminate \/ RunStop \/ RunSetState \/ RunSchedule

SpecRun == Init /\ [][NextRun]_vars

\* what one schedule() call of a run leaves and returns. scheduler_tick is written
\* and never read by lines 96-125, so while line 94 does not panic the table and
\* the current pid a call leaves fix every later call of the run
RunStep(r) ==
    [processes |-> r.pm.processes, current_pid |-> r.pm.current_pid, ret |-> r.ret]

\* the run of schedule() calls from pm, in a build with (checks) or without
\* overflow checks. The run is followed until a call leaves the table and current
\* pid that an earlier call of the run left: the calls after that earlier one are
\* the calls the run repeats. Without overflow checks the tick wraps and they are
\* repeated for ever (panics is FALSE). With overflow checks each call adds one to
\* scheduler_tick, so they are repeated only until the tick is u32::MAX: the next
\* call panics at line 94, writes nothing, and no call is made after it (panics
\* is TRUE). A run whose call panics before any table recurs stops there: its
\* calls are the ones made, the panicking one last, and nothing is repeated.
RECURSIVE schedule_cycle(_, _, _)
schedule_cycle(checks, pm, steps) ==
    LET r == IF checks THEN schedule_overflow_checks(pm) ELSE schedule(pm)
        st == RunStep(r)
        seen == {i \in 1..Len(steps) : /\ steps[i].processes = st.processes
                                       /\ steps[i].current_pid = st.current_pid}
    IN IF r.ret.tag = "Diverges"
       THEN [calls |-> Append(steps, st), repeats |-> FALSE, panics |-> TRUE]
       ELSE IF seen # {}
       THEN [calls |-> SubSeq(steps, Min(seen) + 1, Len(steps)) \o <<st>>,
             repeats |-> TRUE, panics |-> checks]
       ELSE schedule_cycle(checks, r.pm, Append(steps, st))

\* in either build, process pid is Ready or Running after every call the run
\* goes on to make and none of these calls returns it: without overflow checks
\* the calls go on for ever, with them they stop at the panic, after which
\* schedule() returns nothing at all
Starved(pid) ==
    \A checks \in BOOLEAN :
      LET calls == schedule_cycle(checks, PROCESS_MANAGER, <<>>).calls
      IN \A k \in 1..Len(calls) :
           /\ position(calls[k].processes, pid) # 0
           /\ Runnable(calls[k].processes[position(calls[k].processes, pid)])
           /\ calls[k].ret # Some(pid)

\* C24: under repeated schedule() calls with nothing interleaved, every process
\* that is Ready or Running is returned again and again (no starvation): from no
\* state does the run of schedule() calls go on with calls that keep a process
\* Ready or Running and never return it.
C24_NoStarvation == \A pid \in RunPids : ~Starved(pid)

-----------------------------------------------------------------------------
(* Claims C31 - C33: error reporting and custom handlers of the signal operations *)

\* C31: send_signal to a target pid that is not in the process table returns an
\* error, for every signal 1..31 and every mask and handler table.
C31_UnknownPidIsError ==
    [][(/\ last'.op = "send_signal"
        /\ from_i32(last'.args[2]).tag = "Some"
        /\ position(Procs, last'.args[1]) = 0)
       => last'.ret.tag = "Err"]_vars

(* SpecNum: the public signal operations called with valid and with invalid *)
(* signal numbers                                                           *)
InvalidNumbers == {-1, 0, 32}
NumInputs == InvalidNumbers \cup {SIGTERM, SIGCONT}
NumActions == {Ignore, Custom(8192)}

NumCreate == CreateProcess(MaxSigTable, {0})
NumSend == SendSignal({1}, NumInputs, {0}, MaxPending)
NumSetHandler == SetSignalHandler(NumInputs, NumActions)
NumBlock == BlockSignal(NumInputs)
NumUnblock == UnblockSignal(NumInputs)

NextNum ==
    \/ NumCreate
    \/ NumSend
    \/ NumSetHandler
    \/ NumBlock
    \/ NumUnblock

SpecNum == Init /\ [][NextNum]_vars

\* C32: send_signal, set_signal_handler, block_signal and unblock_signal called
\* with a signal number outside 1..31 return an error and leave the signal mask,
\* the pending queue, the handler table and the process table unchanged.
C32_InvalidNumberRejected ==
    [][(/\ last'.op \in {"send_signal", "set_signal_handler", "block_signal",
                         "unblock_signal"}
        /\ (IF last'.op = "send_signal" THEN last'.args[2] ELSE last'.args[1])
               \notin 1..31)
       => /\ last'.ret.tag = "Err"
          /\ Mask' = Mask
          /\ Pending' = Pending
          /\ Handlers' = Handlers
          /\ PROCESS_MANAGER' = PROCESS_MANAGER]_vars

\* unblock_signal(32) was rejected while SIGTERM was blocked and queued, a custom
\* handler was installed and a process existed
C32_Witness ==
    /\ last.op = "unblock_signal"
    /\ last.args[1] = 32
    /\ last.ret.tag = "Err"
    /\ Len(Pending) = 1
    /\ bit_test(Mask, signal_bit(SIGTERM))
    /\ Handlers[SIGCONT - 1].kind = "Custom"
    /\ Len(Procs) = 1

(* SpecCustom: custom handlers. One signal at a time gets a Custom handler *)
(* at one of two addresses; that signal may be blocked and unblocked, and  *)
(* it is sent, as are the signals that stop, continue and kill a process.  *)
CustomAddrs == {0, 8192}
CustomActions == {Custom(a) : a \in CustomAddrs}
HasCustom(signal) == Handlers[signal - 1].kind = "Custom"

CustCreate == CreateProcess(MaxSigTable, {0})
CustSetHandler ==
    /\ \A signal \in AllSignals : ~HasCustom(signal)
    /\ SetSignalHandler(AllSignals, CustomActions)
CustBlock == BlockSignal({signal \in AllSignals : HasCustom(signal)})
CustUnblock == UnblockSignal({signal \in AllSignals : HasCustom(signal)})
CustSend ==
    SendSignal({1, 2}, {signal \in AllSignals : HasCustom(signal)} \cup {SIGKILL, SIGSTOP, SIGCONT},
               {0}, MaxPending)

NextCustom ==
    \/ CustCreate
    \/ CustSetHandler
    \/ CustBlock
    \/ CustUnblock
    \/ CustSend

SpecCustom == Init /\ [][NextCustom]_vars

\* C33: delivering a signal whose handler entry is Custom(addr) returns success
\* and leaves the process table unchanged, for every catchable signal and address.
C33_CustomDeliveryIsNoOp ==
    [][(/\ last'.op \in {"send_signal", "unblock_signal"}
        /\ last'.delivered # <<>>
        /\ \A i \in 1..Len(last'.delivered) : HasCustom(last'.delivered[i].signal))
       => /\ last'.ret = Ok
          /\ PROCESS_MANAGER' = PROCESS_MANAGER]_vars

\* SIGTERM with a custom handler was delivered to the existing process 1, which
\* is still Ready
C33_Witness ==
    /\ last.op = "send_signal"
    /\ last.args = <<1, SIGTERM, 0>>
    /\ last.delivered # <<>>
    /\ last.ret = Ok
    /\ Handlers[SIGTERM - 1] = Custom(8192)
    /\ Len(Procs) = 1
    /\ Procs[1].state = "Ready"

-----------------------------------------------------------------------------
(* SpecPreempt: once init_interrupts has unmasked them, interrupts are      *)
(* taken between the operations of the process table, the signal subsystem *)
(* and the syscall dispatcher and between the statements of an operation;  *)
(* the handler runs to completion before the operation goes on.            *)

PreemptIars == {IRQ_TIMER, 1023}
KernelOps ==
    {"create_process", "schedule", "terminate_process", "block_signal",
     "unblock_signal", "send_signal", "handle_syscall"}

\* an operation is called while none is in progress: c is what its first
\* statement leaves, a what the same call leaves in the history without interrupts
Call(c, a) ==
    /\ task.pc = "idle"
    /\ ~hw.irq_masked
    /\ ~Halted
    /\ task' = c.task
    /\ PROCESS_MANAGER' = c.pm
    /\ GLOBAL_SIGNAL_HANDLER' = c.sh
    /\ alone' = a
    /\ UNCHANGED <<last, run, GLOBAL_FD_TABLE, VFS, irqvars>>

\* the operation in progress executes its next statement
Step ==
    /\ task.pc \notin {"idle", "return"}
    /\ LET s == step(task, PROCESS_MANAGER, GLOBAL_SIGNAL_HANDLER)
       IN /\ task' = s.task
          /\ PROCESS_MANAGER' = s.pm
          /\ GLOBAL_SIGNAL_HANDLER' = s.sh
    /\ UNCHANGED <<last, run, GLOBAL_FD_TABLE, VFS, irqvars, alone>>

\* the operation in progress returns to its caller
Return ==
    /\ task.pc = "return"
    /\ last' = [op |-> task.op, args |-> task.args, act |-> NoAction, ret |-> task.ret,
                delivered |-> task.delivered]
    /\ run' = IF task.op = "schedule"
              THEN RunAfterSchedule(task.ret)
              ELSE RunAfterOther(PROCESS_MANAGER)
    /\ task' = NoTask
    /\ UNCHANGED <<PROCESS_MANAGER, GLOBAL_SIGNAL_HANDLER, GLOBAL_FD_TABLE, VFS, irqvars,
                   alone>>

\* init_interrupts is kernel code called once, while interrupts are masked and no
\* other operation is in progress
PreInstall == task.pc = "idle" /\ hw.irq_masked /\ InitInstall
PreController == task.pc = "idle" /\ InitController
PreVectors == task.pc = "idle" /\ InitVectors
PreUnmask == task.pc = "idle" /\ InitUnmask
PreIrq == Irq(PreemptIars)
PreCreate ==
    /\ Len(PROCESS_MANAGER.processes) < MaxPreTable
    /\ \E e \in EntryPoints :
         LET c == create_process_enter(task_of("create_process", <<e, 2>>), PROCESS_MANAGER)
             r == create_process(alone.pm, e, 2)
         IN Call([task |-> c.task, pm |-> c.pm, sh |-> GLOBAL_SIGNAL_HANDLER],
                 [alone EXCEPT !.pm = r.pm, !.ret = r.ret])
PreSchedule ==
    /\ PROCESS_MANAGER.scheduler_tick < MaxPreTicks
    /\ \E checks \in BOOLEAN :
         LET c == schedule_enter(checks, task_of("schedule", <<>>), PROCESS_MANAGER)
             r == IF checks THEN schedule_overflow_checks(alone.pm) ELSE schedule(alone.pm)
         IN Call([task |-> c.task, pm |-> c.pm, sh |-> GLOBAL_SIGNAL_HANDLER],
                 [alone EXCEPT !.pm = r.pm, !.ret = r.ret])
PreTerminate ==
    LET c == terminate_process_enter(task_of("terminate_process", <<2>>),
                                     PROCESS_MANAGER, 2)
        r == terminate_process(alone.pm, 2)
    IN Call([task |-> c.task, pm |-> c.pm, sh |-> GLOBAL_SIGNAL_HANDLER],
            [alone EXCEPT !.pm = r.pm, !.ret = r.ret])
PreBlock ==
    LET c == block_signal_enter(task_of("block_signal", <<SIGTERM>>), GLOBAL_SIGNAL_HANDLER)
        r == block_signal(alone.sh, SIGTERM)
    IN Call([task |-> c.task, pm |-> PROCESS_MANAGER, sh |-> c.sh],
            [alone EXCEPT !.sh = r.sh, !.ret = r.ret])
PreUnblock ==
    LET c == unblock_signal_enter(task_of("unblock_signal", <<SIGTERM>>),
                                  GLOBAL_SIGNAL_HANDLER)
        r == unblock_signal(alone.sh, alone.pm, SIGTERM)
    IN Call([task |-> c.task, pm |-> PROCESS_MANAGER, sh |-> c.sh],
            [alone EXCEPT !.pm = r.pm, !.sh = r.sh, !.ret = r.ret])
PreSend ==
    \E signal_num \in {SIGTERM, SIGSTOP} :
      /\ \/ is_uncatchable(signal_num)
         \/ ~bit_test(GLOBAL_SIGNAL_HANDLER.signal_mask, signal_bit(signal_num))
         \/ Len(GLOBAL_SIGNAL_HANDLER.pending_signals) < MaxPending
      /\ LET c == send_signal_enter(task_of("send_signal", <<1, signal_num, 0>>),
                                    PROCESS_MANAGER, GLOBAL_SIGNAL_HANDLER)
             r == send_signal(alone.sh, alone.pm, 1, signal_num, 0)
         IN Call(c, [alone EXCEPT !.pm = r.pm, !.sh = r.sh, !.ret = r.ret])
PreGetpid ==
    LET c == sys_getpid_enter(task_of("handle_syscall", <<172, 0, 0, 0>>), PROCESS_MANAGER)
        r == sys_getpid(alone.pm, alone.fdt)
    IN Call([task |-> c.task, pm |-> c.pm, sh |-> GLOBAL_SIGNAL_HANDLER],
            [alone EXCEPT !.pm = r.pm, !.fdt = r.fdt, !.ret = r.ret])
PreKill ==
    LET c == sys_kill_enter(task_of("handle_syscall", <<129, 1, SIGKILL, 0>>),
                            PROCESS_MANAGER)
        r == sys_kill(alone.pm, alone.fdt, as_i32(1), as_i32(SIGKILL))
    IN Call([task |-> c.task, pm |-> c.pm, sh |-> GLOBAL_SIGNAL_HANDLER],
            [alone EXCEPT !.pm = r.pm, !.fdt = r.fdt, !.ret = r.ret])
PreStep == Step
PreReturn == Return

NextPreempt ==
    \/ PreInstall
    \/ PreController
    \/ PreVectors
    \/ PreUnmask
    \/ PreIrq
    \/ PreCreate
    \/ PreSchedule
    \/ PreTerminate
    \/ PreBlock
    \/ PreUnblock
    \/ PreSend
    \/ PreGetpid
    \/ PreKill
    \/ PreStep
    \/ PreReturn

SpecPreempt == Init /\ [][NextPreempt]_vars

\* C34: the interrupt handler writes no process-table and no signal-subsystem
\* state, so whatever interrupts are handled between the operations or between
\* two statements of an operation, each schedule, terminate_process, signal and
\* syscall operation ends with the process table, the signal state and the
\* descriptor table, and returns the value, of the same calls made with no
\* interrupt.
C34_SameAsUninterrupted ==
    /\ task.pc \in {"idle", "return"}
       => /\ PROCESS_MANAGER = alone.pm
          /\ GLOBAL_SIGNAL_HANDLER = alone.sh
          /\ GLOBAL_FD_TABLE = alone.fdt
    /\ task.pc = "return" => task.ret = alone.ret
    /\ (task.pc = "idle" /\ last.op \in KernelOps) => last.ret = alone.ret

\* the second schedule() call has executed its last statement and returns
\* Some(1) with processes 1 and 2 both Running; the timer interrupt was handled
\* between two of its statements
C34_Witness ==
    /\ task.op = "schedule"
    /\ task.pc = "return"
    /\ task.preempted
    /\ task.ret = Some(1)
    /\ last.op = "rust_irq_handler"
    /\ last.args = <<IRQ_TIMER>>
    /\ Len(mmio) = 3
    /\ PROCESS_MANAGER.scheduler_tick = 2
    /\ Len(Procs) = 2
    /\ Procs[1].state = "Running"
    /\ Procs[2].state = "Running"

-----------------------------------------------------------------------------
(* SpecVec: exceptions taken through the vector table. An exception enters *)
(* the slot of its class and kind with the context's registers; entry      *)
(* masks IRQs and the return from the IRQ path restores the mask.          *)

EntryBases == {1, 101}
EntryStacks == {4096, 8192}
Scratches == {0, 777}
VecIars == {IRQ_TIMER, 1023}

\* an exception of a kind is taken in a class: the core jumps to the slot
TakeException(classes, kinds, bases, stacks) ==
    /\ cpu.at = "context"
    /\ \E class \in classes, kind \in kinds, base \in bases, sp \in stacks :
         /\ kind = "irq" => ~hw.irq_masked
         /\ cpu' = [at |-> "vector", class |-> class, kind |-> kind, index |-> 0,
                    x |-> [i \in 0..30 |-> base + i], sp |-> sp, mem |-> <<>>,
                    entry |-> [x |-> [i \in 0..30 |-> base + i], sp |-> sp],
                    calls |-> 0]
    /\ hw' = [hw EXCEPT !.irq_masked = TRUE]
    /\ UNCHANGED <<PROCESS_MANAGER, GLOBAL_SIGNAL_HANDLER, last, run, GLOBAL_FD_TABLE, VFS,
                   INTERRUPT_CONTROLLER, mmio, init_pc, opvars>>

\* lines 192-226: the slot's branch to the label of its class and kind
VectorBranch ==
    /\ cpu.at = "vector"
    /\ cpu' = [cpu EXCEPT !.at = "stub"]
    /\ UNCHANGED <<PROCESS_MANAGER, GLOBAL_SIGNAL_HANDLER, last, run, GLOBAL_FD_TABLE, VFS,
                   INTERRUPT_CONTROLLER, hw, mmio, init_pc, opvars>>

\* lines 231, 243, 255, 267: b irq_handler
StubToHandler ==
    /\ cpu.at = "stub"
    /\ cpu.kind = "irq"
    /\ cpu' = [cpu EXCEPT !.at = "irq_handler", !.index = 1]
    /\ UNCHANGED <<PROCESS_MANAGER, GLOBAL_SIGNAL_HANDLER, last, run, GLOBAL_FD_TABLE, VFS,
                   INTERRUPT_CONTROLLER, hw, mmio, init_pc, opvars>>

\* the other labels: a branch to itself
StubSpin ==
    /\ cpu.at = "stub"
    /\ cpu.kind # "irq"
    /\ UNCHANGED vars

\* a save or restore instruction of irq_handler
HandlerInstr ==
    /\ cpu.at = "irq_handler"
    /\ irq_handler[cpu.index].op \in {"stp", "str", "ldp", "ldr"}
    /\ cpu' = [exec(cpu, irq_handler[cpu.index]) EXCEPT !.index = @ + 1]
    /\ UNCHANGED <<PROCESS_MANAGER, GLOBAL_SIGNAL_HANDLER, last, run, GLOBAL_FD_TABLE, VFS,
                   INTERRUPT_CONTROLLER, hw, mmio, init_pc, opvars>>

\* bl rust_irq_handler
HandlerCall(iars, scratches) ==
    /\ cpu.at = "irq_handler"
    /\ irq_handler[cpu.index].op = "bl"
    /\ \E iar \in iars, scratch \in scratches :
         LET r == rust_irq_handler(INTERRUPT_CONTROLLER, iar)
         IN /\ mmio' = r.accesses
            /\ last' = [op |-> "rust_irq_handler", args |-> <<iar>>, act |-> NoAction,
                        ret |-> r.ret, delivered |-> <<>>]
            /\ cpu' = [call_clobber(cpu, scratch) EXCEPT !.index = @ + 1]
    /\ UNCHANGED <<PROCESS_MANAGER, GLOBAL_SIGNAL_HANDLER, run, GLOBAL_FD_TABLE, VFS,
                   INTERRUPT_CONTROLLER, hw, init_pc, opvars>>

\* eret: back to the interrupted context, which had IRQs unmasked
HandlerEret ==
    /\ cpu.at = "irq_handler"
    /\ irq_handler[cpu.index].op = "eret"
    /\ cpu' = [cpu EXCEPT !.at = "context", !.index = 0]
    /\ hw' = [hw EXCEPT !.irq_masked = FALSE]
    /\ UNCHANGED <<PROCESS_MANAGER, GLOBAL_SIGNAL_HANDLER, last, run, GLOBAL_FD_TABLE, VFS,
                   INTERRUPT_CONTROLLER, mmio, init_pc, opvars>>

\* init_interrupts runs in the context, not inside an exception
VecInstall == cpu.at = "context" /\ InitInstall
VecController == cpu.at = "context" /\ InitController
VecVectors == cpu.at = "context" /\ InitVectors
VecUnmask == cpu.at = "context" /\ InitUnmask
VecTake ==
    /\ hw.vbar_el1 = START_VECTORS
    /\ TakeException(ExceptionClasses, ExceptionKinds, EntryBases, EntryStacks)
VecBranch == VectorBranch
VecToHandler == StubToHandler
VecSpin == StubSpin
VecInstr == HandlerInstr
VecCall == HandlerCall(VecIars, Scratches)
VecEret == HandlerEret

NextVec ==
    \/ VecInstall
    \/ VecController
    \/ VecVectors
    \/ VecUnmask
    \/ VecTake
    \/ VecBranch
    \/ VecToHandler
    \/ VecSpin
    \/ VecInstr
    \/ VecCall
    \/ VecEret

SpecVec == Init /\ [][NextVec]_vars

\* C35: in each of the four classes an IRQ exception runs the high-level handler
\* exactly once and returns to the interrupted context with x0..x30 and the stack
\* pointer at their entry values; a synchronous, FIQ or SError exception never
\* reaches the handler and never returns.
C35_IrqReturnsOthersHalt ==
    [][/\ (cpu.at = "irq_handler" /\ cpu'.at = "context")
          => /\ cpu'.x = cpu.entry.x
             /\ cpu'.sp = cpu.entry.sp
             /\ cpu'.calls = 1
       /\ (cpu.at \in {"vector", "stub"} /\ cpu.kind = "irq")
          => cpu'.at \in {"stub", "irq_handler"}
       /\ (cpu.at \in {"vector", "stub"} /\ cpu.kind # "irq")
          => /\ cpu'.at \in {"vector", "stub"}
             /\ cpu'.kind = cpu.kind
             /\ cpu'.calls = 0]_vars

\* an IRQ taken from a lower exception level in AArch32 state has returned after
\* one call of the handler that overwrote the caller-saved registers
C35_Witness ==
    /\ cpu.at = "context"
    /\ cpu.kind = "irq"
    /\ cpu.class = "aarch32"
    /\ cpu.calls = 1
    /\ cpu.entry.x[0] = 101
    /\ cpu.x[30] = 131
    /\ cpu.sp = 8192
    /\ cpu.mem[8192 - 256] = 101
    /\ last.op = "rust_irq_handler"
    /\ last.args = <<IRQ_TIMER>>
    /\ last.ret = Unit

-----------------------------------------------------------------------------
(* SpecGic: the controller's registers. Before init_interrupts the         *)
(* hardware may report another number of lines and may have lines enabled  *)
(* or pending and the distributor on; lines are enabled and disabled       *)
(* before and after init().                                                *)

TyperInputs == {2, 4, 5, 36}
EnabledInputs == {{}, {1, 33, 153, 159}, 0..191}
PendingInputs == {{}, {64, 100}}
LineInputs == {0, 31, 32, 159, 191}

\* the state the hardware is handed over in
GicPreset(typers, enabledSets, pendingSets) ==
    /\ hw = hw_reset
    /\ INTERRUPT_CONTROLLER = None
    /\ \E typer \in typers, enabled \in enabledSets, pending \in pendingSets,
          ctlr \in {0, 1} :
         hw' = [hw EXCEPT !.typer = typer,
                          !.gicd_ctlr = ctlr,
                          !.enabled = {l \in enabled : l < num_lines_of(typer)},
                          !.pending = {l \in pending : l < num_lines_of(typer)}]
    /\ hw' # hw
    /\ UNCHANGED <<PROCESS_MANAGER, GLOBAL_SIGNAL_HANDLER, last, run, GLOBAL_FD_TABLE, VFS,
                   INTERRUPT_CONTROLLER, mmio, init_pc, cpu, opvars>>

\* ic.enable_interrupt(irq) on the installed controller, for an implemented line
EnableInterrupt(irqs) ==
    /\ INTERRUPT_CONTROLLER.tag = "Some"
    /\ \E irq \in irqs :
         /\ irq < num_lines_of(hw.typer)
         /\ hw' = enable_interrupt([hw EXCEPT !.log = <<>>], irq)
         /\ IrqOp("enable_interrupt", <<irq>>, Unit)
    /\ UNCHANGED <<INTERRUPT_CONTROLLER, mmio, init_pc, task>>

\* ic.disable_interrupt(irq) on the installed controller, for an implemented line
DisableInterrupt(irqs) ==
    /\ INTERRUPT_CONTROLLER.tag = "Some"
    /\ \E irq \in irqs :
         /\ irq < num_lines_of(hw.typer)
         /\ hw' = disable_interrupt([hw EXCEPT !.log = <<>>], irq)
         /\ IrqOp("disable_interrupt", <<irq>>, Unit)
    /\ UNCHANGED <<INTERRUPT_CONTROLLER, mmio, init_pc, task>>

GicHandover == GicPreset(TyperInputs, EnabledInputs, PendingInputs)
GicInstall == InitInstall
GicController == InitController
GicEnable == EnableInterrupt(LineInputs)
GicDisable == DisableInterrupt(LineInputs)

NextGic ==
    \/ GicHandover
    \/ GicInstall
    \/ GicController
    \/ GicEnable
    \/ GicDisable

SpecGic == Init /\ [][NextGic]_vars

\* C36: with write-1-to-set / write-1-to-clear enable registers, enable_interrupt(irq)
\* makes line irq enabled and disable_interrupt(irq) makes it disabled, each with
\* one write to bank irq / 32 that leaves the enable state of every other line and
\* every other register unchanged, for every implemented line.
C36_EnableDisableOneLine ==
    [][/\ last'.op = "enable_interrupt"
          => /\ hw'.enabled = hw.enabled \cup {last'.args[1]}
             /\ Len(hw'.log) = 1
             /\ hw'.log[1].block = "GICD_ISENABLER"
             /\ hw'.log[1].off = 4 * (last'.args[1] \div 32)
             /\ [hw' EXCEPT !.enabled = hw.enabled, !.log = hw.log] = hw
       /\ last'.op = "disable_interrupt"
          => /\ hw'.enabled = hw.enabled \ {last'.args[1]}
             /\ Len(hw'.log) = 1
             /\ hw'.log[1].block = "GICD_ICENABLER"
             /\ hw'.log[1].off = 4 * (last'.args[1] \div 32)
             /\ [hw' EXCEPT !.enabled = hw.enabled, !.log = hw.log] = hw]_vars

\* line 159 (bank 4, bit 31) was disabled while lines of the same bank and of
\* other banks stay enabled
C36_Witness ==
    /\ last.op = "disable_interrupt"
    /\ last.args[1] = 159
    /\ 159 \notin hw.enabled
    /\ {0, 64, 113, 153} \subseteq hw.enabled

\* C37: when init() completes on a controller that reports at least 160 lines, the
\* enabled lines are exactly {64, 113, 153} whatever was enabled or pending before,
\* the distributor and the CPU interface are enabled, every clear-enable,
\* clear-pending, priority and target write was made while the distributor was
\* disabled, and the three set-enable writes were made with the CPU interface
\* enabled.
C37_InitLeavesThreeLines ==
    [][(/\ last'.op = "init_interrupts:init"
        /\ last'.ret = Ok
        /\ num_lines_of(hw.typer) >= 160)
       => /\ hw'.enabled = {IRQ_TIMER, IRQ_GPIO, IRQ_UART0}
          /\ hw'.gicd_ctlr = 1
          /\ hw'.gicc_ctlr = 1
          /\ \A i \in 1..Len(hw'.log) :
                /\ hw'.log[i].block \in {"GICD_ICENABLER", "GICD_ICPENDR",
                                         "GICD_IPRIORITYR", "GICD_ITARGETSR"}
                   => ~hw'.log[i].dist_on
                /\ hw'.log[i].block = "GICD_ISENABLER" => hw'.log[i].cpu_on
          /\ Cardinality({i \in 1..Len(hw'.log) : hw'.log[i].block = "GICD_ISENABLER"}) = 3
          /\ \E i \in 1..Len(hw'.log) : hw'.log[i].block = "GICD_ICENABLER"]_vars

\* init() completed on a controller of 192 lines that was handed over with the
\* distributor on, every line enabled and lines pending
C37_Witness ==
    /\ last.op = "init_interrupts:init"
    /\ last.ret = Ok
    /\ hw.typer = 5
    /\ hw.enabled = {IRQ_TIMER, IRQ_GPIO, IRQ_UART0}
    /\ hw.pending = {}
    /\ hw.log[1].dist_on
    /\ hw.priority[191] = 160
    /\ hw.target[191] = 1

-----------------------------------------------------------------------------
\* C38: on a freshly populated table (no schedule() call yet, every process Ready)
\* the first schedule() selects the first process in table order.
C38_FirstScheduleTakesFirstEntry ==
    [][(/\ last'.op = "schedule"
        /\ PROCESS_MANAGER.scheduler_tick = 0
        /\ Procs # <<>>
        /\ \A j \in 1..Len(Procs) : Procs[j].state = "Ready")
       => last'.ret = Some(Procs[1].pid)]_vars

-----------------------------------------------------------------------------
(* SpecBound: the queue's invariant. While one signal is blocked the queue *)
(* grows to its capacity and past the attempt to exceed it; while two are  *)
(* blocked it mixes them up to MaxQueue entries. SIGKILL and SIGSTOP are   *)
(* sent, blocked and given handlers like the catchable signals.            *)

BoundSignals == {SIGKILL, SIGSTOP, SIGTERM, SIGCHLD, SIGINT}
BoundActions == {Ignore}
OneBlocked == \E s \in BoundSignals : Mask = signal_bit(s)

BoundCreate == CreateProcess(MaxSigTable, {0})
BoundBlock == BlockSignal(BoundSignals)
BoundUnblock == UnblockSignal(BoundSignals)
BoundSetHandler == SetSignalHandler({SIGKILL, SIGTERM}, BoundActions)
BoundSend ==
    SendSignal({1}, BoundSignals, {0},
               IF OneBlocked THEN MAX_PENDING_SIGNALS + 1 ELSE MaxQueue)
BoundKeyboard ==
    HandleKeyboardInterrupt(IF OneBlocked THEN MAX_PENDING_SIGNALS + 1 ELSE MaxQueue)

NextBound ==
    \/ BoundCreate
    \/ BoundBlock
    \/ BoundUnblock
    \/ BoundSetHandler
    \/ BoundSend
    \/ BoundKeyboard

SpecBound == Init /\ [][NextBound]_vars

\* C39: in every state reachable by block_signal, unblock_signal,
\* set_signal_handler and send_signal the queue holds at most MAX_PENDING_SIGNALS
\* entries, the signal of every entry has its mask bit set, and no entry is SIGKILL
\* or SIGSTOP.
C39_QueueWithinMask ==
    /\ Len(Pending) <= MAX_PENDING_SIGNALS
    /\ \A i \in 1..Len(Pending) :
          /\ bit_test(Mask, signal_bit(Pending[i].signal))
          /\ Pending[i].signal \notin {SIGKILL, SIGSTOP}

\* SIGSTOP was sent while the queue is full and two signals are blocked
C39_Witness ==
    /\ last.op = "send_signal"
    /\ last.args[2] = SIGSTOP
    /\ Len(Pending) = MAX_PENDING_SIGNALS
    /\ Mask = signal_bit(SIGTERM) + signal_bit(SIGCHLD)

-----------------------------------------------------------------------------
(* SpecSlice: a table of up to MaxSliceTable processes scheduled for more  *)
(* than a full time slice, with processes terminated, stopped and          *)
(* continued in between                                                    *)

SlicePids == {1, 2}

SliceCreate == CreateProcess(MaxSliceTable, {0})
SliceCreateInit == CreateInitProcess(MaxSliceTable)
SliceSchedule == Schedule(MaxSliceTicks)
SliceTerminate == TerminateProcess(SlicePids)
SliceSignal == SendSignal(SlicePids, {SIGSTOP, SIGCONT}, {0}, MaxPending)
SliceSetState == SetProcessState(SlicePids, {"Running"})

NextSlice ==
    \/ SliceCreate
    \/ SliceCreateInit
    \/ SliceSchedule
    \/ SliceTerminate
    \/ SliceSignal
    \/ SliceSetState

SpecSlice == Init /\ [][NextSlice]_vars

\* the table index of the current process, 0 when there is none
CurrentIndex == position(Procs, PROCESS_MANAGER.current_pid)

\* C40: after every operation every process has 0 <= used_time < time_slice;
\* schedule() adds one to the used time of the current process and resets it to 0
\* when it reaches the time slice or the process is not Running; no operation
\* changes the used time of a process that is not the current one.
C40_UsedTimeWithinSlice ==
    [][/\ \A j \in 1..Len(Procs') :
             /\ 0 <= Procs'[j].used_time
             /\ Procs'[j].used_time < Procs'[j].time_slice
       /\ (last'.op = "schedule" /\ CurrentIndex # 0)
          => Procs'[CurrentIndex].used_time =
                IF \/ Procs[CurrentIndex].used_time + 1 >= Procs[CurrentIndex].time_slice
                   \/ Procs[CurrentIndex].state # "Running"
                THEN 0
                ELSE Procs[CurrentIndex].used_time + 1
       /\ Len(Procs') >= Len(Procs)
       /\ \A j \in 1..Len(Procs) :
             (j # CurrentIndex \/ last'.op # "schedule")
             => Procs'[j].used_time = Procs[j].used_time]_vars

\* the twelfth schedule() ended the first process's full slice and selected it
\* again, while the second process still has the one tick it was charged
C40_Witness ==
    /\ last.op = "schedule"
    /\ PROCESS_MANAGER.scheduler_tick = DEFAULT_TIME_SLICE + 2
    /\ Len(Procs) = 2
    /\ last.ret = Some(Procs[1].pid)
    /\ Procs[1].used_time = 0
    /\ Procs[2].used_time = 1
    /\ Procs[2].state = "Running"

-----------------------------------------------------------------------------
(* SpecFs: the virtual file system and the descriptor syscalls that read   *)
(* it: files are created and rewritten before and after init_filesystem,   *)
(* one of them under a path longer than a file name holds                  *)

MaxFsFiles == 21    \* create_file is explored while the VFS holds fewer files

LongPath == "/tmp/a-path-of-seventy-bytes-that-does-not-fit-a-file-name-of-64-bytes"
FsPaths == {"/tmp/testfile", "/etc/hostname", "/proc/uptime", LongPath}
FsContents == {"", "hello"}

FsInit == InitFilesystem
FsInitSyscalls == InitSyscalls
FsCreate == CreateFile(FsPaths, FsContents, MaxFsFiles)
FsWrite == WriteFile(FsPaths, FsContents)
FsRead == ReadFile(FsPaths, TimerInputs)
FsExists == FileExists(FsPaths)
FsDelete == DeleteFile({"/tmp/testfile", "/proc/uptime"})
FsSyscall == HandleSyscall({56, 63, 64}, {0, 1, 3}, {0}, {3, 9}, MaxSigTable, MaxFds + 3)

NextFs ==
    \/ FsInit
    \/ FsInitSyscalls
    \/ FsCreate
    \/ FsWrite
    \/ FsRead
    \/ FsExists
    \/ FsDelete
    \/ FsSyscall

SpecFs == Init /\ [][NextFs]_vars

\* a read through an open descriptor returns the smaller of count and the length
\* of the file's content, -2 when the VFS has no such file and -9 for a descriptor
\* that is not open
FsReadLength ==
    [][(last'.op = "handle_syscall" /\ last'.args[1] = 63 /\ last'.args[2] # 0)
       => LET d == get_fd(GLOBAL_FD_TABLE, last'.args[2])
              i == IF VFS.tag = "Some" THEN file_index(VFS.val, d.val.path) ELSE 0
          IN last'.ret = IF d.tag = "None" THEN I64(-9)
                         ELSE IF i = 0 THEN I64(-2)
                         ELSE I64(Min({last'.args[4], Len(VFS.val.files[i].content)}))]_vars

====
